---- MODULE Spec2Model ----
(***************************************************************************)
(* A model of the identifier / watermark / relationship-graph core of the  *)
(* DecentralizedResourceID repository.                                     *)
(*                                                                         *)
(* Conventions                                                             *)
(*  - A JavaScript string that the code splits or concatenates is a        *)
(*    sequence of tokens; the separators ":" and "-" are tokens of their   *)
(*    own, so split(':') and `${a}-${b}` are computed, not assumed.        *)
(*  - A JavaScript object is a function from keys to values; the spread    *)
(*    {...a, ...b} is Merge(a, b), where b wins.                           *)
(*  - new Date() reads the variable now.                                   *)
(***************************************************************************)
EXTENDS Integers, Sequences, FiniteSets, TLC

VARIABLES
  now,        \* the clock read by new Date()
  nodes,      \* ResourceGraph.nodes     : Map did -> node object
  edges,      \* ResourceGraph.edges     : array of edge objects
  provData,   \* ResourceGraph.provData  : cached PROV document or Null
  modified,   \* ResourceGraph.modified
  rNodes,         \* ResourceRelationshipManager.nodes : Map did -> ResourceNode
  outgoingEdges,  \* Map did -> array of references to RelationshipEdge objects
  incomingEdges,  \* Map did -> array of references to RelationshipEdge objects
  edgeIndex,      \* Map `${sourceDid}-${targetDid}-${type}` -> reference
  edgeObjs,       \* the RelationshipEdge objects, by reference
  call,           \* findPaths in progress: its arguments, or None
  stack,          \* the _dfs activations, innermost last
  visited,        \* findPaths: const visited = new Set()
  path,           \* findPaths: const currentPath = []
  paths,          \* findPaths: const paths = []
  issued,         \* the createDID calls made so far: arguments and returned did
  wm,             \* a text on its way through embed and extract, with the
                  \* payload and options of the embed call
  b58,            \* a buffer on its way through base58.encode and decode
  generated,      \* the generateDID calls made on attribute objects:
                  \* arguments, unique id and returned did
  layers,         \* HierarchicalMetadataManager.layers : tag -> layer or None
  ret         \* the last call: its name and what it returned

graphVars == <<nodes, edges, provData, modified>>
rrmVars == <<rNodes, outgoingEdges, incomingEdges, edgeIndex, edgeObjs>>
searchVars == <<call, stack, visited, path, paths>>
otherVars == <<b58, generated, layers>>
vars == <<now, graphVars, rrmVars, searchVars, issued, wm, otherVars, ret>>

\* null for a string-valued argument; None / Some(x) for an optional object
Null == "null"
None == <<>>
Some(x) == <<x>>

\* the objects a specification does not exercise are not constructed
InitOther == b58 = None /\ generated = {} /\ layers = None

----------------------------------------------------------------------------
(* JavaScript objects and strings *)

EmptyObj == <<>>

Has(o, k) == k \in DOMAIN o

\* {...a, ...b}
Merge(a, b) ==
  [k \in (DOMAIN a) \cup (DOMAIN b) |-> IF k \in DOMAIN b THEN b[k] ELSE a[k]]

\* o[k] = v on a plain object
Put(o, k, v) == [x \in (DOMAIN o) \cup {k} |-> IF x = k THEN v ELSE o[x]]

\* delete o[k] / Map.delete(k)
Without(o, k) == [x \in (DOMAIN o) \ {k} |-> o[x]]

\* alphabet.indexOf(c)
IndexIn(alphabet, c) ==
  IF \E i \in 1..Len(alphabet) : alphabet[i] = c
  THEN (CHOOSE i \in 1..Len(alphabet) : alphabet[i] = c) - 1
  ELSE -1

RECURSIVE LastIndexOf(_, _, _)
LastIndexOf(s, tok, i) ==
  IF i = 0 THEN 0
  ELSE IF s[i] = tok THEN i ELSE LastIndexOf(s, tok, i - 1)

\* str.split(':').pop()
LastSegment(s) ==
  LET i == LastIndexOf(s, ":", Len(s)) IN SubSeq(s, i + 1, Len(s))

----------------------------------------------------------------------------
(* src/relation/resource_graph.js: vocabularies *)

RELATIONSHIP_TYPES ==
  { "contains", "isPartOf", "hasComponent", "isComponentOf",
    "wasDerivedFrom", "wasRevisionOf", "wasQuotedFrom", "wasInfluencedBy",
    "wasGeneratedBy", "used", "wasAttributedTo", "wasAssociatedWith",
    "dependsOn", "requires", "uses", "supports",
    "precedes", "follows", "replaces",
    "trainedOn", "fineTunedFrom", "generates", "analyzes" }

ENTITY_TYPES ==
  { "DigitalResource", "Dataset", "AIModel", "TextContent", "ImageContent",
    "AudioContent", "VideoContent", "SoftwareCode", "Agent", "Person",
    "Organization", "Software", "Activity" }

AgentTypes == { "Agent", "Person", "Organization", "Software" }

\* the five relations of the PROV vocabulary (spec glossary)
ProvRelations ==
  { "wasDerivedFrom", "wasGeneratedBy", "used", "wasAttributedTo",
    "wasAssociatedWith" }

----------------------------------------------------------------------------
(* ResourceGraph as a value: [nodes, edges, provData, modified] *)

NewGraph == [nodes |-> EmptyObj, edges |-> <<>>, provData |-> None, modified |-> FALSE]

\* the first index i with P(edges[i]), 0 when there is none (findIndex + 1)
RECURSIVE FindEdgeIndex(_, _, _, _, _)
FindEdgeIndex(es, from, to, type, i) ==
  IF i > Len(es) THEN 0
  ELSE IF es[i]["from"] = from /\ es[i]["to"] = to /\ es[i]["type"] = type THEN i
  ELSE FindEdgeIndex(es, from, to, type, i + 1)

addNodeThrows(did) == did = <<>>

addNode(g, did, metadata, t) ==
  IF Has(g.nodes, did)
  THEN [g EXCEPT !.nodes = Put(g.nodes, did,
                     Merge(Merge(g.nodes[did], metadata), [updated |-> t])),
                 !.modified = TRUE]
  ELSE [g EXCEPT !.nodes = Put(g.nodes, did,
                     Merge([did     |-> did,
                            type    |-> IF Has(metadata, "type") /\ metadata["type"] # ""
                                        THEN metadata["type"] ELSE "DigitalResource",
                            label   |-> IF Has(metadata, "label") /\ metadata["label"] # <<>>
                                        THEN metadata["label"] ELSE LastSegment(did),
                            created |-> t,
                            updated |-> t],
                           metadata)),
                 !.modified = TRUE]

\* addEdge without the check of the target node
addEdgeThrowsSourceOnly(g, fromDID, toDID, relationshipType) ==
  \/ ~Has(g.nodes, fromDID)
  \/ relationshipType \notin RELATIONSHIP_TYPES

addEdgeThrows(g, fromDID, toDID, relationshipType) ==
  \/ ~Has(g.nodes, fromDID)
  \/ ~Has(g.nodes, toDID)
  \/ relationshipType \notin RELATIONSHIP_TYPES

addEdge(g, fromDID, toDID, relationshipType, metadata, t) ==
  LET existingEdgeIndex == FindEdgeIndex(g.edges, fromDID, toDID, relationshipType, 1)
      edge == Merge([from |-> fromDID, to |-> toDID, type |-> relationshipType,
                     created |-> t], metadata)
  IN  IF existingEdgeIndex > 0
      THEN [g EXCEPT !.edges[existingEdgeIndex] =
                        Merge(Merge(g.edges[existingEdgeIndex], edge), [updated |-> t]),
                     !.modified = TRUE]
      ELSE [g EXCEPT !.edges = Append(g.edges, edge), !.modified = TRUE]

Incident(e, did) == e["from"] = did \/ e["to"] = did

\* a removeNode that forgets the edges arriving at the node
removeNodeOutgoingOnly(g, did) ==
  IF ~Has(g.nodes, did) THEN g
  ELSE [g EXCEPT !.nodes = Without(g.nodes, did),
                 !.edges = SelectSeq(g.edges, LAMBDA e : e["from"] # did),
                 !.modified = TRUE]

\* lines 181-194
removeNode(g, did) ==
  IF ~Has(g.nodes, did) THEN g
  ELSE [g EXCEPT !.nodes = Without(g.nodes, did),
                 !.edges = SelectSeq(g.edges, LAMBDA e : ~Incident(e, did)),
                 !.modified = TRUE]

removeEdge(g, fromDID, toDID, relationshipType) ==
  LET kept == IF relationshipType # Null
              THEN SelectSeq(g.edges, LAMBDA e :
                     ~(e["from"] = fromDID /\ e["to"] = toDID /\ e["type"] = relationshipType))
              ELSE SelectSeq(g.edges, LAMBDA e :
                     ~(e["from"] = fromDID /\ e["to"] = toDID))
  IN  [g EXCEPT !.edges = kept, !.modified = (Len(kept) # Len(g.edges))]

----------------------------------------------------------------------------
(* ResourceGraph.toPROV.  Keys of a PROV entry are <<prefix, local>>, so   *)
(* that `asset:${edge.type}`, startsWith('asset:') and substring(6) are    *)
(* computed on the key.                                                    *)

PROVContext ==
  [prov  |-> "http://www.w3.org/ns/prov#",
   xsd   |-> "http://www.w3.org/2001/XMLSchema#",
   rdfs  |-> "http://www.w3.org/2000/01/rdf-schema#",
   asset |-> "https://w3id.org/asset/"]

KType     == <<"prov", "type">>
KLabel    == <<"rdfs", "label">>
KGenTime  == <<"prov", "generatedAtTime">>
KStart    == <<"prov", "startedAtTime">>
KEnd      == <<"prov", "endedAtTime">>
KDerived  == <<"prov", "wasDerivedFrom">>
KGenBy    == <<"prov", "wasGeneratedBy">>
KUsed     == <<"prov", "used">>
KAttrTo   == <<"prov", "wasAttributedTo">>
KAssoc    == <<"prov", "wasAssociatedWith">>
AssetKey(type) == <<"asset", type>>

IsActivityNode(n) == n["type"] = "Activity"
IsAgentNode(n)    == n["type"] \in AgentTypes
IsEntityNode(n)   == ~IsActivityNode(n) /\ ~IsAgentNode(n)

\* obj[key] = obj[key] || []; obj[key].push(v)
Push(obj, key, v) ==
  Put(obj, key, IF Has(obj, key) THEN Append(obj[key], v) ELSE <<v>>)

\* lines 387-414: the three maps before any relationship is added
ProvNodes(ns) ==
  [context  |-> PROVContext,
   entity   |-> [d \in {x \in DOMAIN ns : IsEntityNode(ns[x])} |->
                   (KType :> ns[d]["type"]) @@ (KLabel :> ns[d]["label"])
                     @@ (KGenTime :> ns[d]["created"])],
   activity |-> [d \in {x \in DOMAIN ns : IsActivityNode(ns[x])} |->
                   (KStart :> (IF Has(ns[d], "startTime") THEN ns[d]["startTime"]
                               ELSE ns[d]["created"]))
                     @@ (KEnd :> (IF Has(ns[d], "endTime") THEN ns[d]["endTime"]
                                  ELSE ns[d]["updated"]))
                     @@ (KLabel :> ns[d]["label"])],
   agent    |-> [d \in {x \in DOMAIN ns : IsAgentNode(ns[x])} |->
                   (KType :> ns[d]["type"]) @@ (KLabel :> ns[d]["label"])]]

\* lines 417-479: one iteration of the loop over this.edges
ProvEdge(prov, ns, e) ==
  LET f == e["from"]
      t == e["to"]
  IN
  CASE e["type"] \in {"wasDerivedFrom", "wasRevisionOf", "wasQuotedFrom", "wasInfluencedBy"} ->
         IF ~Has(prov.entity, t) THEN prov
         ELSE [prov EXCEPT !.entity[t] = Push(@, KDerived, f)]
    [] e["type"] = "wasGeneratedBy" ->
         IF ~Has(prov.entity, f) \/ ~Has(prov.activity, t) THEN prov
         ELSE [prov EXCEPT !.entity[f] = Put(@, KGenBy, t)]
    [] e["type"] = "used" ->
         IF ~Has(prov.activity, f) \/ ~Has(prov.entity, t) THEN prov
         ELSE [prov EXCEPT !.activity[f] = Push(@, KUsed, t)]
    [] e["type"] = "wasAttributedTo" ->
         IF ~Has(prov.entity, f) \/ ~Has(prov.agent, t) THEN prov
         ELSE [prov EXCEPT !.entity[f] = Put(@, KAttrTo, t)]
    [] e["type"] = "wasAssociatedWith" ->
         IF ~Has(prov.activity, f) \/ ~Has(prov.agent, t) THEN prov
         ELSE [prov EXCEPT !.activity[f] = Put(@, KAssoc, t)]
    [] OTHER ->
         IF Has(ns, f) /\ ns[f]["type"] \in {"DigitalResource", "AIModel"}
         THEN IF ~Has(prov.entity, f) THEN prov
              ELSE [prov EXCEPT !.entity[f] = Push(@, AssetKey(e["type"]), t)]
         ELSE prov

RECURSIVE ProvEdges(_, _, _, _)
ProvEdges(prov, ns, es, i) ==
  IF i > Len(es) THEN prov
  ELSE ProvEdges(ProvEdge(prov, ns, es[i]), ns, es, i + 1)

\* lines 374-479: the document built from the graph's nodes and edges
ProjectPROV(ns, es) == ProvEdges(ProvNodes(ns), ns, es, 1)

\* the whole of toPROV: [g |-> the graph afterwards, value |-> what is returned]
toPROV(g) ==
  IF ~g.modified /\ g.provData # None
  THEN [g |-> g, value |-> g.provData[1]]
  ELSE LET prov == ProjectPROV(g.nodes, g.edges)
       IN  [g |-> [g EXCEPT !.provData = Some(prov), !.modified = FALSE], value |-> prov]

----------------------------------------------------------------------------
(* ResourceGraph.fromJSON and ResourceGraph.fromPROV build a new graph by  *)
(* calling addNode and addEdge; a throw inside aborts the whole call.      *)

DidA == <<"did", ":", "A">>
DidB == <<"did", ":", "B">>
DidC == <<"did", ":", "C">>
Dids == {DidA, DidB, DidC}

\* Object.entries / Map iteration visits keys in this order
DidOrder == <<DidA, DidB, DidC>>
KeySeq(m) == SelectSeq(DidOrder, LAMBDA d : d \in DOMAIN m)

\* a relationship tag outside RELATIONSHIP_TYPES
BadType == "notARelationship"

\* the tags in a fixed order, for iterating over the asset:* keys of an entry
TypeOrder ==
  << "contains", "isPartOf", "hasComponent", "isComponentOf",
     "wasDerivedFrom", "wasRevisionOf", "wasQuotedFrom", "wasInfluencedBy",
     "wasGeneratedBy", "used", "wasAttributedTo", "wasAssociatedWith",
     "dependsOn", "requires", "uses", "supports",
     "precedes", "follows", "replaces",
     "trainedOn", "fineTunedFrom", "generates", "analyzes", BadType >>

RECURSIVE FoldSeq(_, _, _, _)
FoldSeq(Op(_, _), acc, s, i) ==
  IF i > Len(s) THEN acc ELSE FoldSeq(Op, Op(acc, s[i]), s, i + 1)

\* one addNode / addEdge inside a builder; acc = [ok, g]
TryAddNode(acc, did, metadata, t) ==
  IF ~acc.ok THEN acc
  ELSE IF addNodeThrows(did) THEN [acc EXCEPT !.ok = FALSE]
  ELSE [acc EXCEPT !.g = addNode(acc.g, did, metadata, t)]

TryAddEdge(acc, from, to, type, metadata, t) ==
  IF ~acc.ok THEN acc
  ELSE IF addEdgeThrows(acc.g, from, to, type) THEN [acc EXCEPT !.ok = FALSE]
  ELSE [acc EXCEPT !.g = addEdge(acc.g, from, to, type, metadata, t)]

\* lines 504-522; json = [nodes |-> <<node, ...>>, edges |-> <<edge, ...>>]
fromJSON(json, t) ==
  LET withNodes ==
        FoldSeq(LAMBDA acc, n : TryAddNode(acc, n["did"], n, t),
                [ok |-> TRUE, g |-> NewGraph], json.nodes, 1)
  IN  FoldSeq(LAMBDA acc, e :
                IF acc.ok /\ Has(acc.g.nodes, e["from"]) /\ Has(acc.g.nodes, e["to"])
                THEN TryAddEdge(acc, e["from"], e["to"], e["type"], e, t)
                ELSE acc,
              withNodes, json.edges, 1)

\* lines 491-496
toJSON(g) ==
  [nodes |-> [i \in 1..Len(KeySeq(g.nodes)) |-> g.nodes[KeySeq(g.nodes)[i]]],
   edges |-> g.edges]

\* lines 573-611: the relationships of one entity
FromProvEntityEdges(acc0, prov, did, t) ==
  LET entity == prov.entity[did]
      a1 == IF Has(entity, KDerived)
            THEN FoldSeq(LAMBDA acc, source :
                           IF acc.ok /\ Has(acc.g.nodes, source)
                           THEN TryAddEdge(acc, source, did, "wasDerivedFrom", EmptyObj, t)
                           ELSE acc,
                         acc0, entity[KDerived], 1)
            ELSE acc0
      a2 == IF a1.ok /\ Has(entity, KGenBy) /\ Has(a1.g.nodes, entity[KGenBy])
            THEN TryAddEdge(a1, did, entity[KGenBy], "wasGeneratedBy", EmptyObj, t)
            ELSE a1
      a3 == IF a2.ok /\ Has(entity, KAttrTo) /\ Has(a2.g.nodes, entity[KAttrTo])
            THEN TryAddEdge(a2, did, entity[KAttrTo], "wasAttributedTo", EmptyObj, t)
            ELSE a2
      assetKeys == {k \in DOMAIN entity : k[1] = "asset"}
      \* the asset:* keys one after the other; their mutual order does not
      \* change which edges are added
      keySeq == SelectSeq([i \in 1..Len(TypeOrder) |-> AssetKey(TypeOrder[i])],
                          LAMBDA k : k \in assetKeys)
  IN  FoldSeq(LAMBDA acc, k :
                FoldSeq(LAMBDA acc2, target :
                          IF acc2.ok /\ Has(acc2.g.nodes, target)
                          THEN TryAddEdge(acc2, did, target, k[2], EmptyObj, t)
                          ELSE acc2,
                        acc, entity[k], 1),
              a3, keySeq, 1)

\* lines 614-634: the relationships of one activity
FromProvActivityEdges(acc0, prov, did, t) ==
  LET activity == prov.activity[did]
      a1 == IF Has(activity, KUsed)
            THEN FoldSeq(LAMBDA acc, entity :
                           IF acc.ok /\ Has(acc.g.nodes, entity)
                           THEN TryAddEdge(acc, did, entity, "used", EmptyObj, t)
                           ELSE acc,
                         acc0, activity[KUsed], 1)
            ELSE acc0
  IN  IF a1.ok /\ Has(activity, KAssoc) /\ Has(a1.g.nodes, activity[KAssoc])
      THEN TryAddEdge(a1, did, activity[KAssoc], "wasAssociatedWith", EmptyObj, t)
      ELSE a1

\* lines 530-637; returns [ok, g]
fromPROV(prov, t) ==
  LET n1 == FoldSeq(LAMBDA acc, did :
                      TryAddNode(acc, did,
                        [type    |-> IF prov.entity[did][KType] # ""
                                     THEN prov.entity[did][KType] ELSE "DigitalResource",
                         label   |-> IF prov.entity[did][KLabel] # <<>>
                                     THEN prov.entity[did][KLabel] ELSE LastSegment(did),
                         created |-> prov.entity[did][KGenTime]], t),
                    [ok |-> TRUE, g |-> NewGraph], KeySeq(prov.entity), 1)
      n2 == FoldSeq(LAMBDA acc, did :
                      TryAddNode(acc, did,
                        [type      |-> "Activity",
                         label     |-> IF prov.activity[did][KLabel] # <<>>
                                       THEN prov.activity[did][KLabel] ELSE LastSegment(did),
                         created   |-> prov.activity[did][KStart],
                         updated   |-> prov.activity[did][KEnd],
                         startTime |-> prov.activity[did][KStart],
                         endTime   |-> prov.activity[did][KEnd]], t),
                    n1, KeySeq(prov.activity), 1)
      n3 == FoldSeq(LAMBDA acc, did :
                      TryAddNode(acc, did,
                        [type  |-> IF prov.agent[did][KType] # ""
                                   THEN prov.agent[did][KType] ELSE "Agent",
                         label |-> IF prov.agent[did][KLabel] # <<>>
                                   THEN prov.agent[did][KLabel] ELSE LastSegment(did)], t),
                    n2, KeySeq(prov.agent), 1)
      e1 == FoldSeq(LAMBDA acc, did : IF acc.ok THEN FromProvEntityEdges(acc, prov, did, t) ELSE acc,
                    n3, KeySeq(prov.entity), 1)
  IN  FoldSeq(LAMBDA acc, did : IF acc.ok THEN FromProvActivityEdges(acc, prov, did, t) ELSE acc,
              e1, KeySeq(prov.activity), 1)

----------------------------------------------------------------------------
(* src/relationship/resource_relationship_manager.js                       *)
(* ResourceRelationshipManager as a value m = [nodes, outgoingEdges,       *)
(* incomingEdges, edgeIndex, edgeObjs].  A RelationshipEdge is an object   *)
(* shared by the two adjacency lists and the index, so the lists and the   *)
(* index hold references (numbers) into edgeObjs.                          *)

NewRrm ==
  [nodes |-> EmptyObj, outgoingEdges |-> EmptyObj, incomingEdges |-> EmptyObj,
   edgeIndex |-> EmptyObj, edgeObjs |-> EmptyObj]

\* `${sourceDid}-${targetDid}-${type}`
EdgeKey(sourceDid, targetDid, type) == sourceDid \o <<"-">> \o targetDid \o <<"-">> \o type

\* new RelationshipEdge(...): the object gets the first unused reference
NewRef(m) == CHOOSE r \in 1..(Cardinality(DOMAIN m.edgeObjs) + 1) : r \notin DOMAIN m.edgeObjs

SeqRange(s) == { s[i] : i \in 1..Len(s) }

\* objects no list and no index entry refers to are garbage
Live(m) ==
  UNION { SeqRange(m.outgoingEdges[d]) : d \in DOMAIN m.outgoingEdges }
    \cup UNION { SeqRange(m.incomingEdges[d]) : d \in DOMAIN m.incomingEdges }
    \cup { m.edgeIndex[k] : k \in DOMAIN m.edgeIndex }

Collect(m) == [m EXCEPT !.edgeObjs = [r \in Live(m) |-> m.edgeObjs[r]]]

\* lines 203-217
rrmAddNode(m, did, type, metadata, t) ==
  IF Has(m.nodes, did)
  THEN [m EXCEPT !.nodes[did] =
          [@ EXCEPT !.metadata = Merge(@, metadata), !.updatedAt = t]]
  ELSE [m EXCEPT
          !.nodes = Put(m.nodes, did,
                        [did |-> did, type |-> type, metadata |-> metadata,
                         createdAt |-> t, updatedAt |-> t]),
          !.outgoingEdges = Put(m.outgoingEdges, did, <<>>),
          !.incomingEdges = Put(m.incomingEdges, did, <<>>)]

\* lines 238-243
addRelationshipThrows(m, sourceDid, targetDid) ==
  ~Has(m.nodes, sourceDid) \/ ~Has(m.nodes, targetDid)

\* lines 245-262
addRelationship(m, sourceDid, targetDid, type, properties, t) ==
  LET edgeKey == EdgeKey(sourceDid, targetDid, type) IN
  IF Has(m.edgeIndex, edgeKey)
  THEN [m EXCEPT !.edgeObjs[m.edgeIndex[edgeKey]].properties = Merge(@, properties)]
  ELSE LET r == NewRef(m) IN
       [m EXCEPT
          !.edgeObjs = Put(m.edgeObjs, r,
                           [sourceDid |-> sourceDid, targetDid |-> targetDid,
                            type |-> type, properties |-> properties, createdAt |-> t]),
          !.outgoingEdges[sourceDid] = Append(@, r),
          !.incomingEdges[targetDid] = Append(@, r),
          !.edgeIndex = Put(m.edgeIndex, edgeKey, r)]

\* arr.splice(arr.findIndex(e => e === edge), 1), when the edge is found
RemoveFirst(s, r) ==
  IF r \notin SeqRange(s) THEN s
  ELSE LET i == CHOOSE j \in 1..Len(s) : s[j] = r /\ \A k \in 1..(j - 1) : s[k] # r
       IN  SubSeq(s, 1, i - 1) \o SubSeq(s, i + 1, Len(s))

\* lines 272-298: [m |-> the manager afterwards, threw, value].  The lists of
\* an identifier that is no node are undefined, and findIndex on undefined
\* throws a TypeError, after what was done before it.
removeRelationship(m, sourceDid, targetDid, type) ==
  LET edgeKey == EdgeKey(sourceDid, targetDid, type) IN
  IF ~Has(m.edgeIndex, edgeKey) THEN [m |-> m, threw |-> FALSE, value |-> FALSE]
  ELSE
    LET edge == m.edgeIndex[edgeKey] IN
    IF ~Has(m.outgoingEdges, sourceDid) THEN [m |-> m, threw |-> TRUE, value |-> FALSE]
    ELSE
      LET m1 == [m EXCEPT !.outgoingEdges[sourceDid] = RemoveFirst(@, edge)] IN
      IF ~Has(m1.incomingEdges, targetDid)
      THEN [m |-> Collect(m1), threw |-> TRUE, value |-> FALSE]
      ELSE [m |-> Collect([m1 EXCEPT !.incomingEdges[targetDid] = RemoveFirst(@, edge),
                                     !.edgeIndex = Without(m1.edgeIndex, edgeKey)]),
            threw |-> FALSE, value |-> TRUE]

\* lines 343-346
hasRelationship(m, sourceDid, targetDid, type) ==
  Has(m.edgeIndex, EdgeKey(sourceDid, targetDid, type))

M == [nodes |-> rNodes, outgoingEdges |-> outgoingEdges, incomingEdges |-> incomingEdges,
      edgeIndex |-> edgeIndex, edgeObjs |-> edgeObjs]

SetM(m) ==
  /\ rNodes' = m.nodes
  /\ outgoingEdges' = m.outgoingEdges
  /\ incomingEdges' = m.incomingEdges
  /\ edgeIndex' = m.edgeIndex
  /\ edgeObjs' = m.edgeObjs

InitRrm ==
  /\ rNodes = NewRrm.nodes
  /\ outgoingEdges = NewRrm.outgoingEdges
  /\ incomingEdges = NewRrm.incomingEdges
  /\ edgeIndex = NewRrm.edgeIndex
  /\ edgeObjs = NewRrm.edgeObjs

OnlyRrm == UNCHANGED <<now, otherVars, graphVars, searchVars, issued, wm>>

RrmAddNode(did, type, metadata) ==
  /\ SetM(rrmAddNode(M, did, type, metadata, now))
  /\ ret' = [op |-> "rrm.addNode"]
  /\ OnlyRrm

RrmAddRelationship(sourceDid, targetDid, type, properties) ==
  /\ IF addRelationshipThrows(M, sourceDid, targetDid)
     THEN /\ UNCHANGED rrmVars
          /\ ret' = [op |-> "rrm.addRelationship", threw |-> TRUE]
     ELSE /\ SetM(addRelationship(M, sourceDid, targetDid, type, properties, now))
          /\ ret' = [op |-> "rrm.addRelationship", threw |-> FALSE]
  /\ OnlyRrm

RrmRemoveRelationship(sourceDid, targetDid, type) ==
  /\ SetM(removeRelationship(M, sourceDid, targetDid, type).m)
  /\ ret' = [op |-> "rrm.removeRelationship",
             threw |-> removeRelationship(M, sourceDid, targetDid, type).threw,
             value |-> removeRelationship(M, sourceDid, targetDid, type).value]
  /\ OnlyRrm

----------------------------------------------------------------------------
(* The ResourceGraph object as state, and one action per method call.      *)

G == [nodes |-> nodes, edges |-> edges, provData |-> provData, modified |-> modified]

SetG(g) ==
  /\ nodes' = g.nodes
  /\ edges' = g.edges
  /\ provData' = g.provData
  /\ modified' = g.modified

InitGraph ==
  /\ nodes = NewGraph.nodes
  /\ edges = NewGraph.edges
  /\ provData = NewGraph.provData
  /\ modified = NewGraph.modified

\* a bound on the edges of a graph: the call would not grow the list past max
Room(fromDID, toDID, relationshipType, max) ==
  \/ FindEdgeIndex(edges, fromDID, toDID, relationshipType, 1) > 0
  \/ Len(edges) < max

\* Each action sets the variables of its object and ret (the call's name and
\* what it returned or whether it threw) and leaves the other objects alone.
OnlyGraph == UNCHANGED <<now, otherVars, rrmVars, searchVars, issued, wm>>

AddNode(did, metadata) ==
  /\ IF addNodeThrows(did)
     THEN /\ UNCHANGED graphVars
          /\ ret' = [op |-> "addNode", threw |-> TRUE]
     ELSE /\ SetG(addNode(G, did, metadata, now))
          /\ ret' = [op |-> "addNode", threw |-> FALSE]
  /\ OnlyGraph

AddEdge(fromDID, toDID, relationshipType, metadata) ==
  /\ IF addEdgeThrows(G, fromDID, toDID, relationshipType)
     THEN /\ UNCHANGED graphVars
          /\ ret' = [op |-> "addEdge", threw |-> TRUE]
     ELSE /\ SetG(addEdge(G, fromDID, toDID, relationshipType, metadata, now))
          /\ ret' = [op |-> "addEdge", threw |-> FALSE]
  /\ OnlyGraph

RemoveNode(did) ==
  /\ SetG(removeNode(G, did))
  /\ ret' = [op |-> "removeNode", value |-> Has(nodes, did),
             dropped |-> Len(edges) - Len(removeNode(G, did).edges)]
  /\ OnlyGraph

RemoveEdge(fromDID, toDID, relationshipType) ==
  /\ SetG(removeEdge(G, fromDID, toDID, relationshipType))
  /\ ret' = [op |-> "removeEdge",
             value |-> removeEdge(G, fromDID, toDID, relationshipType).modified]
  /\ OnlyGraph

ToPROV ==
  /\ SetG(toPROV(G).g)
  /\ ret' = [op |-> "toPROV", value |-> toPROV(G).value]
  /\ OnlyGraph

\* ResourceGraph.fromPROV(graph.toPROV()): the graph keeps what toPROV did
\* to it, the rebuilt graph is the value returned
RoundTripPROV ==
  /\ SetG(toPROV(G).g)
  /\ ret' = [op |-> "fromPROV", doc |-> toPROV(G).value,
             value |-> fromPROV(toPROV(G).value, now)]
  /\ OnlyGraph

\* graph = ResourceGraph.fromJSON(json): the graph under observation is
\* replaced by the one built, unless the call threw
FromJSON(json) ==
  /\ IF fromJSON(json, now).ok
     THEN /\ SetG(fromJSON(json, now).g)
          /\ ret' = [op |-> "fromJSON", threw |-> FALSE]
     ELSE /\ UNCHANGED graphVars
          /\ ret' = [op |-> "fromJSON", threw |-> TRUE]
  /\ OnlyGraph

\* time passes between two calls
MaxClock == 1

Tick ==
  /\ now < MaxClock
  /\ now' = now + 1
  /\ UNCHANGED <<graphVars, rrmVars, searchVars, issued, wm, otherVars, ret>>

----------------------------------------------------------------------------
(* ResourceGraph.findPaths and its recursive helper _dfs, one step per     *)
(* statement group of _dfs.  An activation of _dfs is a record             *)
(* [current, target, depth, relationshipTypes, edges, i, at]: edges is the *)
(* array the for-of loop runs over, i the next index, at the position.     *)

\* lines 242-256
getEdges(g, did, direction) ==
  IF ~Has(g.nodes, did) THEN <<>>
  ELSE CASE direction = "outgoing" -> SelectSeq(g.edges, LAMBDA e : e["from"] = did)
         [] direction = "incoming" -> SelectSeq(g.edges, LAMBDA e : e["to"] = did)
         [] OTHER -> SelectSeq(g.edges, LAMBDA e : e["from"] = did \/ e["to"] = did)

\* line 299: options.maxDepth || 5
DefaultMaxDepth == 5
MaxDepthOf(options) ==
  IF options.maxDepth = None \/ options.maxDepth = Some(0)
  THEN DefaultMaxDepth ELSE options.maxDepth[1]

\* line 300: options.relationshipTypes || null (an array is truthy); an
\* option is None when absent and Some(v) when given
RelationshipTypesOf(options) == options.relationshipTypes

Includes(arr, x) == \E i \in 1..Len(arr) : arr[i] = x

\* a _dfs that follows an edge whatever visited holds
MayDescendRevisiting(edge, vis, relationshipTypes) ==
  relationshipTypes = None \/ Includes(relationshipTypes[1], edge["type"])

\* lines 667-668
MayDescend(edge, vis, relationshipTypes) ==
  /\ edge["to"] \notin vis
  /\ relationshipTypes = None \/ Includes(relationshipTypes[1], edge["type"])

Activation(current, target, depth, relationshipTypes) ==
  [current |-> current, target |-> target, depth |-> depth,
   relationshipTypes |-> relationshipTypes, edges |-> <<>>, i |-> 1, at |-> "enter"]

Top == stack[Len(stack)]
Pop == SubSeq(stack, 1, Len(stack) - 1)
SetTop(f) == [stack EXCEPT ![Len(stack)] = f]

InitSearch ==
  /\ call = None
  /\ stack = <<>>
  /\ visited = {}
  /\ path = <<>>
  /\ paths = <<>>

OnlySearch == UNCHANGED <<now, otherVars, graphVars, rrmVars, issued, wm>>

\* lines 298-313, up to the first call of _dfs
FindPaths(startDID, endDID, options) ==
  /\ call = None
  /\ call' = Some([startDID |-> startDID, endDID |-> endDID, options |-> options])
  /\ visited' = {}
  /\ path' = <<>>
  /\ paths' = <<>>
  /\ IF ~Has(nodes, startDID) \/ ~Has(nodes, endDID)
     THEN /\ stack' = <<>>
          /\ ret' = [op |-> "findPaths", value |-> <<>>]
     ELSE /\ stack' = <<Activation(startDID, endDID, MaxDepthOf(options),
                                   RelationshipTypesOf(options))>>
          /\ ret' = [op |-> "findPaths.running"]
  /\ OnlySearch

\* lines 652-665
DfsEnter ==
  /\ stack # <<>>
  /\ Top.at = "enter"
  /\ IF Top.depth < 0
     THEN /\ stack' = Pop
          /\ UNCHANGED <<visited, path, paths>>
     ELSE /\ visited' = visited \cup {Top.current}
          /\ path' = Append(path, Top.current)
          /\ IF Top.current = Top.target
             THEN /\ paths' = Append(paths, path')
                  /\ stack' = SetTop([Top EXCEPT !.at = "exit"])
             ELSE /\ paths' = paths
                  /\ stack' = SetTop([Top EXCEPT !.at = "loop",
                                        !.edges = getEdges(G, Top.current, "outgoing")])
  /\ UNCHANGED <<call, ret>>
  /\ OnlySearch

\* lines 666-671: one turn of the for-of loop
DfsLoop ==
  /\ stack # <<>>
  /\ Top.at = "loop"
  /\ IF Top.i > Len(Top.edges)
     THEN stack' = SetTop([Top EXCEPT !.at = "exit"])
     ELSE LET edge == Top.edges[Top.i]
              next == SetTop([Top EXCEPT !.i = @ + 1])
          IN  IF MayDescend(edge, visited, Top.relationshipTypes)
              THEN stack' = Append(next, Activation(edge["to"], Top.target, Top.depth - 1,
                                                    Top.relationshipTypes))
              ELSE stack' = next
  /\ UNCHANGED <<call, visited, path, paths, ret>>
  /\ OnlySearch

\* lines 674-676
DfsExit ==
  /\ stack # <<>>
  /\ Top.at = "exit"
  /\ path' = SubSeq(path, 1, Len(path) - 1)
  /\ visited' = visited \ {Top.current}
  /\ stack' = Pop
  /\ UNCHANGED <<call, paths, ret>>
  /\ OnlySearch

\* line 314
FindPathsReturn ==
  /\ call # None
  /\ stack = <<>>
  /\ ret.op = "findPaths.running"
  /\ ret' = [op |-> "findPaths", value |-> paths]
  /\ UNCHANGED <<call, stack, visited, path, paths>>
  /\ OnlySearch

----------------------------------------------------------------------------
(* SpecCache: mutations interleaved with toPROV on one graph.              *)

MaxCacheEdges == 2
CacheDids == {DidA, DidB}
CacheTypes == {"dependsOn"}

InitCache ==
  /\ now = 0
  /\ InitGraph
  /\ InitRrm
  /\ InitSearch
  /\ InitOther
  /\ issued = {}
  /\ wm = None
  /\ ret = [op |-> "new"]

NextCache ==
  \/ \E did \in CacheDids : AddNode(did, EmptyObj)
  \/ \E f \in CacheDids, t \in CacheDids, ty \in CacheTypes :
       Room(f, t, ty, MaxCacheEdges) /\ AddEdge(f, t, ty, EmptyObj)
  \/ \E did \in CacheDids : RemoveNode(did)
  \/ \E f \in CacheDids, t \in CacheDids, ty \in CacheTypes \cup {Null} : RemoveEdge(f, t, ty)
  \/ ToPROV

SpecCache == InitCache /\ [][NextCache]_vars

\* C3: whatever mutations and toPROV calls came before, the document that
\* toPROV() returns is the projection of the graph's current nodes and
\* edges (what a fresh graph holding them would return).
C3_ToPROVIsCurrent ==
  ret.op = "toPROV" => ret.value = ProjectPROV(nodes, edges)

----------------------------------------------------------------------------
(* SpecProv: a graph of entities, activities and agents is built call by   *)
(* call and then sent through fromPROV(toPROV()); toPROV is called on a    *)
(* graph that has no cached document (the cache is SpecCache's subject).   *)

MaxProvEdges == 2
ProvNodeMetas == { EmptyObj, [type |-> "Activity"], [type |-> "Agent"] }
ProvTypes == {"wasGeneratedBy", "wasAttributedTo", "dependsOn"}

InitProv ==
  /\ now = 0
  /\ InitGraph
  /\ InitRrm
  /\ InitSearch
  /\ InitOther
  /\ issued = {}
  /\ wm = None
  /\ ret = [op |-> "new"]

NextProv ==
  \/ \E did \in Dids, md \in ProvNodeMetas :
       provData = None /\ ~Has(nodes, did) /\ AddNode(did, md)
  \/ \E f \in Dids, t \in Dids, ty \in ProvTypes :
       /\ provData = None
       /\ ~addEdgeThrows(G, f, t, ty)
       /\ Room(f, t, ty, MaxProvEdges)
       /\ AddEdge(f, t, ty, EmptyObj)
  \/ provData = None /\ RoundTripPROV

SpecProv == InitProv /\ [][NextProv]_vars

Triples(es) == { <<es[i]["from"], es[i]["to"], es[i]["type"]>> : i \in 1..Len(es) }
ProvTriples(es) == { x \in Triples(es) : x[3] \in ProvRelations }

\* the kinds of node the PROV vocabulary gives each relation
WellTypedProvEdge(ns, e) ==
  /\ Has(ns, e["from"]) /\ Has(ns, e["to"])
  /\ CASE e["type"] = "wasDerivedFrom"    -> IsEntityNode(ns[e["from"]]) /\ IsEntityNode(ns[e["to"]])
       [] e["type"] = "wasGeneratedBy"    -> IsEntityNode(ns[e["from"]]) /\ IsActivityNode(ns[e["to"]])
       [] e["type"] = "used"              -> IsActivityNode(ns[e["from"]]) /\ IsEntityNode(ns[e["to"]])
       [] e["type"] = "wasAttributedTo"   -> IsEntityNode(ns[e["from"]]) /\ IsAgentNode(ns[e["to"]])
       [] e["type"] = "wasAssociatedWith" -> IsActivityNode(ns[e["from"]]) /\ IsAgentNode(ns[e["to"]])
       [] OTHER -> TRUE

\* C4: fromPROV(G.toPROV()) has G's node identifiers with their entity
\* types, and G's edges of the five PROV relations.  Stated for the graphs
\* the claim singles out: every PROV edge joins nodes of the kinds its
\* relation expects (so toPROV skips none) and toPROV's document is current.
C4_RoundTrip ==
  ( /\ ret.op = "fromPROV"
    /\ ret.doc = ProjectPROV(nodes, edges)
    /\ \A i \in 1..Len(edges) : WellTypedProvEdge(nodes, edges[i]) )
  => /\ ret.value.ok
     /\ DOMAIN ret.value.g.nodes = DOMAIN nodes
     /\ \A d \in DOMAIN nodes : ret.value.g.nodes[d]["type"] = nodes[d]["type"]
     /\ ProvTriples(ret.value.g.edges) = ProvTriples(edges)

----------------------------------------------------------------------------
(* SpecGraph: one ResourceGraph under addNode, addEdge, removeNode,        *)
(* removeEdge and fromJSON.  The property map of an edge may carry any     *)
(* key, the keys from, to and type included.                               *)

MaxGraphEdges == 2
GraphDids == {DidA, DidB, DidC}
GraphTypes == {"uses", BadType}
GraphEdgeMetas == {EmptyObj, [to |-> DidC]}

JsonNode(did) == [did |-> did, type |-> "DigitalResource"]
JsonEdge(from, to, type) == [from |-> from, to |-> to, type |-> type]

\* documents handed to fromJSON: a well-formed one, one whose second edge
\* names a node the document does not have, one with an unknown tag
JsonDocs ==
  { [nodes |-> <<JsonNode(DidA), JsonNode(DidB)>>,
     edges |-> <<JsonEdge(DidA, DidB, "uses")>>],
    [nodes |-> <<JsonNode(DidA), JsonNode(DidB)>>,
     edges |-> <<JsonEdge(DidB, DidA, "uses"), JsonEdge(DidA, DidC, "uses")>>],
    [nodes |-> <<JsonNode(DidA), JsonNode(DidB)>>,
     edges |-> <<JsonEdge(DidA, DidB, BadType)>>] }

InitGraphSpec ==
  /\ now = 0
  /\ InitGraph
  /\ InitRrm
  /\ InitSearch
  /\ InitOther
  /\ issued = {}
  /\ wm = None
  /\ ret = [op |-> "new"]

NextGraph ==
  \/ \E did \in GraphDids : AddNode(did, EmptyObj)
  \/ \E f \in GraphDids, t \in GraphDids, ty \in GraphTypes, md \in GraphEdgeMetas :
       Room(f, t, ty, MaxGraphEdges) /\ AddEdge(f, t, ty, md)
  \/ \E did \in GraphDids : RemoveNode(did)
  \/ \E f \in GraphDids, t \in GraphDids, ty \in {"uses", Null} : RemoveEdge(f, t, ty)
  \/ \E json \in JsonDocs \cup {toJSON(G)} : FromJSON(json)

SpecGraph == InitGraphSpec /\ [][NextGraph]_vars

\* C7: in every reachable state of a ResourceGraph both endpoints of every
\* stored edge are identifiers of nodes of the graph.
C7_EndpointsAreNodes ==
  \A i \in 1..Len(edges) : Has(nodes, edges[i]["from"]) /\ Has(nodes, edges[i]["to"])

\* C6: removeNode(id) on an existing node removes that node and exactly the
\* edges whose source or target is id, leaves every other node and edge as
\* it was and returns true; on an absent id it returns false and changes
\* nothing.
C6_RemoveNodeFrame ==
  [][\A did \in GraphDids :
       RemoveNode(did) =>
         IF did \in DOMAIN nodes
         THEN /\ DOMAIN nodes' = DOMAIN nodes \ {did}
              /\ \A d \in DOMAIN nodes' : nodes'[d] = nodes[d]
              /\ edges' = SelectSeq(edges, LAMBDA e : e["from"] # did /\ e["to"] # did)
              /\ ret'.value = TRUE
         ELSE /\ UNCHANGED graphVars
              /\ ret'.value = FALSE]_vars

\* a removeNode that dropped an incident edge and kept another edge and
\* another node
C6_Witness ==
  /\ ret.op = "removeNode"
  /\ ret.value
  /\ ret.dropped >= 1
  /\ Len(edges) >= 1
  /\ nodes # EmptyObj

----------------------------------------------------------------------------
(* SpecEdges: the edge stores of a ResourceGraph and of a                  *)
(* ResourceRelationshipManager, one object exercised per behaviour.  The   *)
(* identifiers of the manager are strings that may contain '-', as         *)
(* base64url identifiers do.                                               *)

MaxEdgesGraph == 2
MaxEdgesRrm == 2
EdgesDids == {DidA, DidB}
EdgesMetas == {EmptyObj, [weight |-> 1], [to |-> DidB]}

RrmA == <<"did:a">>
RrmC == <<"did:c">>
RrmAB == <<"did:a", "-", "did:b">>
RrmBC == <<"did:b", "-", "did:c">>
RrmDids == {RrmA, RrmC, RrmAB, RrmBC}
RrmUses == <<"uses">>
RrmProps == {EmptyObj, [weight |-> 1]}

RrmRoom(sourceDid, targetDid, type, max) ==
  \/ hasRelationship(M, sourceDid, targetDid, type)
  \/ Cardinality(DOMAIN edgeObjs) < max

InitEdges ==
  /\ now = 0
  /\ InitGraph
  /\ InitRrm
  /\ InitSearch
  /\ InitOther
  /\ issued = {}
  /\ wm = None
  /\ ret = [op |-> "new"]

NextEdges ==
  \/ \E did \in EdgesDids : M = NewRrm /\ AddNode(did, EmptyObj)
  \/ \E f \in EdgesDids, t \in EdgesDids, md \in EdgesMetas :
       M = NewRrm /\ Room(f, t, "uses", MaxEdgesGraph) /\ AddEdge(f, t, "uses", md)
  \/ \E did \in EdgesDids : M = NewRrm /\ RemoveNode(did)
  \/ \E f \in EdgesDids, t \in EdgesDids, ty \in {"uses", Null} :
       M = NewRrm /\ RemoveEdge(f, t, ty)
  \/ \E did \in RrmDids : G = NewGraph /\ RrmAddNode(did, "text", EmptyObj)
  \/ \E sd \in RrmDids, td \in RrmDids, props \in RrmProps :
       G = NewGraph /\ RrmRoom(sd, td, RrmUses, MaxEdgesRrm)
                   /\ RrmAddRelationship(sd, td, RrmUses, props)
  \/ \E sd \in RrmDids, td \in RrmDids :
       G = NewGraph /\ RrmRemoveRelationship(sd, td, RrmUses)

SpecEdges == InitEdges /\ [][NextEdges]_vars

\* the edges a manager holds for a node, as (source, target, type) tuples
RrmTuples(refs) ==
  [i \in 1..Len(refs) |-> <<edgeObjs[refs[i]].sourceDid, edgeObjs[refs[i]].targetDid,
                            edgeObjs[refs[i]].type>>]

NoRepeat(s) == \A i \in 1..Len(s), j \in 1..Len(s) : i # j => s[i] # s[j]

GraphOneEdgePerTuple ==
  NoRepeat([i \in 1..Len(edges) |-> <<edges[i]["from"], edges[i]["to"], edges[i]["type"]>>])

RrmOneEdgePerTuple ==
  /\ \A d \in DOMAIN outgoingEdges : NoRepeat(RrmTuples(outgoingEdges[d]))
  /\ \A d \in DOMAIN incomingEdges : NoRepeat(RrmTuples(incomingEdges[d]))

\* C5: in every reachable state a ResourceGraph and a
\* ResourceRelationshipManager hold at most one edge per tuple
\* (source, target, type).
C5_OneEdgePerTuple == GraphOneEdgePerTuple /\ RrmOneEdgePerTuple

----------------------------------------------------------------------------
(* SpecPaths: findPaths on a graph built by addNode and addEdge, with      *)
(* cycles and self-loops; SpecPathsFair lets a started call run on.        *)

MaxPathEdges == 2
PathDids == {DidA, DidB, DidC}
DidX == <<"did", ":", "X">>
PathTypeOrder == <<"used", "wasGeneratedBy">>
PathMaxDepths == {None, Some(0), Some(1), Some(5)}
PathWhitelists == {None, Some(<<"used">>)}

\* every (from, to, type) once, in one fixed order
PathEdgeSeq ==
  [k \in 1..18 |-> << DidOrder[((k - 1) \div 6) + 1],
                      DidOrder[(((k - 1) \div 2) % 3) + 1],
                      PathTypeOrder[((k - 1) % 2) + 1] >>]

\* the graph after addNode of the three identifiers and addEdge of the
\* chosen tuples
BuildGraph(chosen) ==
  LET withNodes == FoldSeq(LAMBDA acc, d : TryAddNode(acc, d, EmptyObj, 0),
                           [ok |-> TRUE, g |-> NewGraph], DidOrder, 1)
  IN  FoldSeq(LAMBDA acc, e : TryAddEdge(acc, e[1], e[2], e[3], EmptyObj, 0),
              withNodes, SelectSeq(PathEdgeSeq, LAMBDA e : e \in chosen), 1).g

PathEdgeSets ==
  { c \in SUBSET { PathEdgeSeq[k] : k \in 1..18 } : Cardinality(c) <= MaxPathEdges }

InitPaths ==
  /\ now = 0
  /\ \E chosen \in PathEdgeSets :
       /\ nodes = BuildGraph(chosen).nodes
       /\ edges = BuildGraph(chosen).edges
       /\ provData = BuildGraph(chosen).provData
       /\ modified = BuildGraph(chosen).modified
  /\ InitRrm
  /\ InitSearch
  /\ InitOther
  /\ issued = {}
  /\ wm = None
  /\ ret = [op |-> "new"]

NextPaths ==
  \/ \E endDID \in PathDids \cup {DidX}, md \in PathMaxDepths, wl \in PathWhitelists :
       FindPaths(DidA, endDID, [maxDepth |-> md, relationshipTypes |-> wl])
  \/ DfsEnter
  \/ DfsLoop
  \/ DfsExit
  \/ FindPathsReturn

SpecPaths == InitPaths /\ [][NextPaths]_vars

\* a call that has started is not suspended for ever
SpecPathsFair ==
  SpecPaths /\ WF_vars(DfsEnter \/ DfsLoop \/ DfsExit \/ FindPathsReturn)

Returned == ret.op = "findPaths"

HasEdge(from, to) == \E i \in 1..Len(edges) : edges[i]["from"] = from /\ edges[i]["to"] = to

ValidPath(p, startDID, endDID) ==
  /\ Len(p) >= 1
  /\ p[1] = startDID
  /\ p[Len(p)] = endDID
  /\ \A k \in 1..(Len(p) - 1) : HasEdge(p[k], p[k + 1])
  /\ NoRepeat(p)

\* C8: findPaths terminates on every graph, cycles and self-loops included,
\* and every path it returns starts at s, ends at t, follows existing
\* outgoing edges and contains no node more than once.
C8_TerminatesWithSimplePaths ==
  /\ (call # None) ~> Returned
  /\ [](Returned =>
          \A k \in 1..Len(ret.value) :
             ValidPath(ret.value[k], call[1].startDID, call[1].endDID))

\* a returned search that found a path in a graph with a cycle through the
\* start node
C8_Witness ==
  /\ Returned
  /\ ret.value # <<>>
  /\ \E d \in PathDids : HasEdge(DidA, d) /\ HasEdge(d, DidA)

HasEdgeOfTypes(from, to, whitelist) ==
  \E i \in 1..Len(edges) :
     /\ edges[i]["from"] = from
     /\ edges[i]["to"] = to
     /\ whitelist = None \/ Includes(whitelist[1], edges[i]["type"])

\* all simple paths from startDID to endDID over edges of whitelisted types
\* that have at most maxDepth edges
SimplePaths(startDID, endDID, maxDepth, whitelist) ==
  { p \in UNION { [1..n -> DOMAIN nodes] : n \in 1..Cardinality(DOMAIN nodes) } :
      /\ p[1] = startDID
      /\ p[Len(p)] = endDID
      /\ NoRepeat(p)
      /\ Len(p) - 1 <= maxDepth
      /\ \A k \in 1..(Len(p) - 1) : HasEdgeOfTypes(p[k], p[k + 1], whitelist) }

\* C9: for every maxDepth >= 0 and every optional whitelist, findPaths
\* returns exactly the simple paths from s to t over whitelisted outgoing
\* edges that have at most maxDepth edges.
C9_ExactlyTheSimplePaths ==
  (Returned /\ call[1].options.maxDepth # None) =>
     SeqRange(ret.value) =
       SimplePaths(call[1].startDID, call[1].endDID,
                   call[1].options.maxDepth[1], call[1].options.relationshipTypes)

----------------------------------------------------------------------------
(* src/context/ai_model_context_manager.js: base58 and                     *)
(* DigitalResourceDID.createDID.  Buffers are sequences of bytes; a base58  *)
(* string is a sequence of characters, so that decode can walk over it.    *)

\* line 617
ALPHABET ==
  << "1", "2", "3", "4", "5", "6", "7", "8", "9", "A", "B", "C",
     "D", "E", "F", "G", "H", "J", "K", "L", "M", "N", "P", "Q",
     "R", "S", "T", "U", "V", "W", "X", "Y", "Z", "a", "b", "c",
     "d", "e", "f", "g", "h", "i", "j", "k", "m", "n", "o", "p",
     "q", "r", "s", "t", "u", "v", "w", "x", "y", "z" >>
BASE == Len(ALPHABET)
LEADER == ALPHABET[1]

RECURSIVE CountLeading(_, _, _)
CountLeading(s, x, i) ==
  IF i <= Len(s) /\ s[i] = x THEN CountLeading(s, x, i + 1) ELSE i - 1

Repeat(str, n) == [i \in 1..n |-> str]

\* the characters of a string, written out as the JavaScript string
RECURSIVE Join(_)
Join(chars) == IF chars = <<>> THEN "" ELSE Head(chars) \o Join(Tail(chars))

\* lines 641-645: one long division of value by BASE; [value, remainder]
RECURSIVE DivideByBase(_, _, _)
DivideByBase(value, i, remainder) ==
  IF i > Len(value) THEN [value |-> value, remainder |-> remainder]
  ELSE LET temp == (remainder * 256) + value[i]
       IN  DivideByBase([value EXCEPT ![i] = temp \div BASE], i + 1, temp % BASE)

\* lines 637-652
RECURSIVE EncodeLoop(_, _)
EncodeLoop(value, result) ==
  IF Len(value) = 0 THEN result
  ELSE LET d == DivideByBase(value, 1, 0)
           z == CountLeading(d.value, 0, 1)
       IN  EncodeLoop(SubSeq(d.value, z + 1, Len(d.value)),
                      <<ALPHABET[d.remainder + 1]>> \o result)

\* lines 621-655
Base58Encode(buffer) ==
  IF Len(buffer) = 0 THEN <<>>
  ELSE Repeat(LEADER, CountLeading(buffer, 0, 1)) \o EncodeLoop(buffer, <<>>)

\* lines 688-696: one character folded into the little-endian result
RECURSIVE CarryInto(_, _, _)
CarryInto(result, j, carry) ==
  IF j > Len(result) THEN result
  ELSE LET c == carry + result[j] * BASE
       IN  CarryInto([result EXCEPT ![j] = c % 256], j + 1, c \div 256)

\* lines 679-697
RECURSIVE DecodeLoop(_, _, _)
DecodeLoop(string, i, result) ==
  IF i > Len(string) THEN result
  ELSE DecodeLoop(string, i + 1,
                  CarryInto(result, 1, IndexIn(ALPHABET, string[i])))

\* line 684
Base58DecodeThrows(string) ==
  \E i \in (CountLeading(string, LEADER, 1) + 1)..Len(string) :
     IndexIn(ALPHABET, string[i]) = -1

\* lines 664-712.  Math.log(58) / Math.log(256) is 0.7322476..., and for
\* the string lengths of the model floor(n * 0.7322476...) is
\* (n * 7322476) \div 10000000.
Base58Decode(string) ==
  IF Len(string) = 0 THEN <<>>
  ELSE LET zeros == CountLeading(string, LEADER, 1)
           size == (((Len(string) - zeros) * 7322476) \div 10000000) + 1
           result == DecodeLoop(string, zeros + 1, [j \in 1..size |-> 0])
           k == CountLeading(result, 0, 1)
       IN  Repeat(0, zeros) \o SubSeq(result, k + 1, size)

\* lines 1067-1096
RESOURCE_TYPES ==
  [ text    |-> [requiredMetadata |-> <<"content_hash", "mime_type", "charset">>,
                 optionalMetadata |-> <<"encoding", "language", "format">>],
    image   |-> [requiredMetadata |-> <<"content_hash", "mime_type", "dimensions">>,
                 optionalMetadata |-> <<"color_space", "bit_depth", "compression">>],
    audio   |-> [requiredMetadata |-> <<"content_hash", "mime_type", "duration", "sample_rate">>,
                 optionalMetadata |-> <<"bit_rate", "channels", "codec">>],
    video   |-> [requiredMetadata |-> <<"content_hash", "mime_type", "duration", "dimensions">>,
                 optionalMetadata |-> <<"frame_rate", "bit_rate", "codec">>],
    model   |-> [requiredMetadata |-> <<"model_hash", "architecture", "parameters",
                                        "training_dataset_ref">>,
                 optionalMetadata |-> <<"framework", "version", "accuracy", "training_date">>],
    dataset |-> [requiredMetadata |-> <<"data_hash", "record_count", "schema_ref">>,
                 optionalMetadata |-> <<"data_types", "license", "collection_date",
                                        "update_frequency">>],
    code    |-> [requiredMetadata |-> <<"code_hash", "language", "version">>,
                 optionalMetadata |-> <<"dependencies", "compiler", "license", "api_spec">>] ]

\* new Date().toISOString() at clock reading t: t milliseconds into 2026
ToISOString(t) ==
  << "2026-01-01T00:00:00.000Z", "2026-01-01T00:00:00.001Z",
     "2026-01-01T00:00:00.002Z", "2026-01-01T00:00:00.003Z" >>[t + 1]

\* !obj[field] for string-valued fields: absent or empty
Falsy(obj, field) == ~Has(obj, field) \/ obj[field] = ""

\* lines 1231-1254: the normalized object as its <<key, value>> pairs in
\* insertion order
_normalizeMetadata(resourceType, metadata, t) ==
  LET requiredFields == RESOURCE_TYPES[resourceType].requiredMetadata
      optionalFields == RESOURCE_TYPES[resourceType].optionalMetadata
      required == [i \in 1..Len(requiredFields) |->
                     <<requiredFields[i], metadata[requiredFields[i]]>>]
      present == SelectSeq(optionalFields, LAMBDA f : Has(metadata, f))
      optional == [i \in 1..Len(present) |-> <<present[i], metadata[present[i]]>>]
      normalized == required \o optional
      hasCreated == \E i \in 1..Len(normalized) :
                       normalized[i][1] = "created" /\ normalized[i][2] # ""
  IN  IF hasCreated THEN normalized
      ELSE normalized \o << <<"created", ToISOString(t)>> >>

\* JSON.stringify of an object with string values
RECURSIVE StringifyPairs(_, _)
StringifyPairs(pairs, i) ==
  IF i > Len(pairs) THEN ""
  ELSE (IF i > 1 THEN "," ELSE "")
         \o "\"" \o pairs[i][1] \o "\":\"" \o pairs[i][2] \o "\""
         \o StringifyPairs(pairs, i + 1)

JSONStringify(pairs) == "{" \o StringifyPairs(pairs, 1) \o "}"

\* SHA-256 of the strings the model hashes, as the 32 digest bytes
Sha256Table ==
     "{\"content_hash\":\"h1\",\"mime_type\":\"text/plain\",\"charset\":\"utf-8\",\"created\":\"2026-01-01T00:00:00.000Z\"}" :>
       <<166, 249, 78, 80, 155, 203, 49, 4, 35, 216, 82, 93, 149, 227, 165, 5,
         131, 224, 147, 104, 8, 174, 237, 5, 214, 7, 182, 170, 210, 239, 214, 66>>
  @@ "{\"content_hash\":\"h1\",\"mime_type\":\"text/plain\",\"charset\":\"utf-8\",\"created\":\"2026-01-01T00:00:00.001Z\"}" :>
       <<104, 90, 192, 182, 37, 68, 214, 243, 69, 44, 112, 79, 191, 36, 82, 42,
         156, 216, 100, 113, 45, 221, 240, 57, 61, 248, 171, 152, 209, 32, 240, 220>>
  @@ "{\"content_hash\":\"h1\",\"mime_type\":\"text/plain\",\"charset\":\"utf-8\",\"created\":\"2026-01-01T00:00:00.002Z\"}" :>
       <<122, 41, 135, 105, 107, 133, 4, 75, 75, 255, 192, 157, 226, 247, 53, 79,
         53, 231, 206, 57, 115, 0, 230, 117, 23, 59, 196, 229, 164, 64, 10, 48>>
  @@ "{\"content_hash\":\"h1\",\"mime_type\":\"text/plain\",\"charset\":\"utf-8\",\"created\":\"2026-01-01T00:00:00.003Z\"}" :>
       <<187, 242, 239, 161, 95, 195, 164, 253, 121, 161, 84, 176, 245, 24, 234, 218,
         21, 208, 110, 212, 168, 223, 113, 154, 240, 198, 239, 191, 64, 13, 34, 215>>
  @@ "{\"content_hash\":\"h1\",\"mime_type\":\"text/plain\",\"charset\":\"utf-8\",\"language\":\"en\",\"created\":\"2026-01-01T00:00:00.000Z\"}" :>
       <<3, 222, 207, 42, 80, 77, 30, 144, 51, 109, 1, 250, 125, 16, 147, 229,
         57, 134, 110, 1, 250, 177, 49, 247, 138, 6, 250, 46, 82, 167, 122, 202>>
  @@ "{\"content_hash\":\"h1\",\"mime_type\":\"text/plain\",\"charset\":\"utf-8\",\"language\":\"en\",\"created\":\"2026-01-01T00:00:00.001Z\"}" :>
       <<52, 181, 41, 36, 173, 179, 215, 117, 216, 189, 235, 97, 96, 58, 246, 115,
         82, 167, 242, 42, 128, 25, 194, 212, 34, 153, 182, 89, 229, 45, 27, 235>>
  @@ "{\"content_hash\":\"h1\",\"mime_type\":\"text/plain\",\"charset\":\"utf-8\",\"language\":\"en\",\"created\":\"2026-01-01T00:00:00.002Z\"}" :>
       <<27, 198, 200, 25, 181, 186, 183, 128, 214, 9, 123, 8, 247, 248, 84, 190,
         107, 23, 206, 243, 191, 168, 78, 225, 139, 65, 175, 156, 212, 187, 195, 222>>
  @@ "{\"content_hash\":\"h1\",\"mime_type\":\"text/plain\",\"charset\":\"utf-8\",\"language\":\"en\",\"created\":\"2026-01-01T00:00:00.003Z\"}" :>
       <<216, 21, 66, 245, 213, 2, 20, 54, 64, 174, 232, 173, 89, 151, 9, 105,
         68, 177, 189, 22, 77, 177, 234, 18, 165, 159, 119, 247, 13, 54, 16, 251>>
  @@ "{\"code_hash\":\"h1\",\"language\":\"en\",\"version\":\"1\",\"created\":\"2026-01-01T00:00:00.000Z\"}" :>
       <<148, 226, 45, 39, 72, 204, 25, 155, 11, 44, 57, 85, 125, 27, 66, 131,
         111, 116, 239, 4, 210, 235, 28, 137, 39, 96, 116, 250, 165, 123, 191, 13>>
  @@ "{\"code_hash\":\"h1\",\"language\":\"en\",\"version\":\"1\",\"created\":\"2026-01-01T00:00:00.001Z\"}" :>
       <<179, 217, 247, 110, 114, 142, 195, 127, 45, 118, 213, 40, 142, 47, 137, 248,
         2, 13, 224, 207, 36, 211, 15, 105, 4, 4, 206, 4, 93, 31, 218, 10>>
  @@ "{\"code_hash\":\"h1\",\"language\":\"en\",\"version\":\"1\",\"created\":\"2026-01-01T00:00:00.002Z\"}" :>
       <<191, 244, 118, 123, 226, 152, 150, 197, 165, 213, 141, 138, 109, 127, 113, 216,
         129, 233, 197, 247, 113, 10, 231, 82, 236, 204, 206, 86, 110, 156, 238, 67>>
  @@ "{\"code_hash\":\"h1\",\"language\":\"en\",\"version\":\"1\",\"created\":\"2026-01-01T00:00:00.003Z\"}" :>
       <<60, 216, 93, 59, 76, 124, 8, 31, 105, 213, 91, 180, 69, 11, 137, 20,
         189, 52, 115, 143, 72, 220, 25, 213, 125, 101, 137, 113, 143, 173, 9, 212>>
  @@ "hello" :>
       <<44, 242, 77, 186, 95, 176, 163, 14, 38, 232, 59, 42, 197, 185, 226, 158,
         27, 22, 30, 92, 31, 167, 66, 94, 115, 4, 51, 98, 147, 139, 152, 36>>
  @@ "world" :>
       <<72, 110, 164, 98, 36, 209, 187, 79, 182, 128, 243, 79, 124, 154, 217, 106,
         143, 36, 236, 136, 190, 115, 234, 142, 90, 108, 101, 38, 14, 156, 184, 167>>
  @@ "alice" :>
       <<43, 216, 6, 201, 127, 14, 0, 175, 26, 31, 195, 50, 143, 167, 99, 169,
         38, 151, 35, 200, 219, 143, 172, 79, 147, 175, 113, 219, 24, 109, 110, 144>>
  @@ "bob" :>
       <<129, 182, 55, 216, 252, 210, 198, 218, 99, 89, 230, 150, 49, 19, 161, 23,
         13, 231, 149, 228, 183, 37, 184, 77, 30, 11, 76, 253, 158, 197, 140, 233>>
  @@ "{\"resource\":{},\"resourceType\":\"text\"}" :>
       <<121, 16, 165, 195, 63, 52, 156, 94, 209, 131, 204, 83, 201, 49, 235, 218,
         124, 145, 29, 64, 200, 95, 114, 169, 197, 121, 93, 115, 10, 26, 183, 76>>
  @@ "{\"a\":\"1\",\"resource\":{},\"resourceType\":\"text\"}" :>
       <<98, 173, 232, 195, 225, 164, 151, 230, 101, 17, 48, 211, 33, 181, 141, 105,
         156, 45, 6, 40, 88, 79, 36, 133, 37, 230, 56, 133, 132, 40, 210, 185>>
  @@ "{\"a\":\"1\",\"resource\":{\"a\":\"1\"},\"resourceType\":\"text\"}" :>
       <<100, 186, 160, 196, 7, 13, 235, 65, 33, 141, 80, 67, 17, 188, 171, 130,
         37, 49, 2, 212, 66, 66, 21, 88, 223, 76, 22, 78, 149, 69, 167, 66>>
  @@ "{\"a\":\"1\",\"resource\":{\"a\":\"2\"},\"resourceType\":\"text\"}" :>
       <<14, 175, 94, 37, 10, 107, 204, 53, 179, 78, 171, 76, 47, 247, 126, 94,
         220, 36, 75, 209, 53, 51, 242, 208, 190, 34, 63, 27, 37, 185, 160, 179>>
  @@ "{\"b\":\"1\",\"resource\":{},\"resourceType\":\"text\"}" :>
       <<229, 242, 113, 137, 246, 29, 216, 208, 177, 118, 197, 104, 47, 133, 125, 200,
         126, 177, 216, 228, 16, 125, 68, 113, 123, 10, 53, 213, 164, 229, 188, 88>>
  @@ "{\"b\":\"1\",\"resource\":{\"b\":\"1\"},\"resourceType\":\"text\"}" :>
       <<212, 226, 30, 144, 109, 124, 68, 236, 76, 220, 15, 203, 213, 254, 185, 83,
         68, 75, 220, 96, 174, 89, 136, 52, 19, 35, 138, 242, 119, 1, 108, 59>>
  @@ "{\"b\":\"1\",\"resource\":{\"b\":\"2\"},\"resourceType\":\"text\"}" :>
       <<223, 158, 130, 130, 177, 229, 191, 70, 139, 34, 63, 38, 33, 125, 40, 253,
         105, 16, 110, 144, 122, 6, 46, 175, 80, 151, 228, 246, 249, 102, 42, 233>>
  @@ "{\"a\":\"1\",\"b\":\"1\",\"resource\":{},\"resourceType\":\"text\"}" :>
       <<189, 161, 19, 39, 250, 112, 83, 184, 145, 255, 149, 234, 82, 153, 11, 244,
         188, 179, 21, 248, 21, 71, 214, 180, 20, 151, 35, 85, 32, 170, 84, 120>>
  @@ "{\"a\":\"1\",\"b\":\"1\",\"resource\":{\"a\":\"1\"},\"resourceType\":\"text\"}" :>
       <<170, 62, 34, 187, 37, 145, 66, 107, 13, 152, 132, 60, 63, 68, 40, 54,
         194, 184, 73, 152, 133, 56, 96, 218, 188, 157, 175, 239, 165, 150, 89, 241>>
  @@ "{\"a\":\"1\",\"b\":\"1\",\"resource\":{\"a\":\"2\"},\"resourceType\":\"text\"}" :>
       <<13, 166, 38, 117, 184, 229, 38, 27, 236, 115, 71, 4, 27, 38, 173, 117,
         168, 20, 123, 246, 250, 77, 150, 188, 38, 194, 226, 138, 156, 254, 24, 106>>
  @@ "{\"a\":\"1\",\"b\":\"1\",\"resource\":{\"b\":\"1\"},\"resourceType\":\"text\"}" :>
       <<39, 239, 29, 1, 91, 200, 227, 148, 253, 87, 117, 91, 246, 248, 188, 86,
         188, 40, 247, 190, 32, 81, 162, 103, 253, 145, 193, 95, 49, 137, 81, 108>>
  @@ "{\"a\":\"1\",\"b\":\"1\",\"resource\":{\"b\":\"2\"},\"resourceType\":\"text\"}" :>
       <<90, 235, 30, 32, 138, 121, 171, 103, 100, 238, 82, 219, 225, 64, 87, 99,
         62, 218, 167, 155, 28, 247, 227, 137, 219, 55, 26, 247, 97, 86, 161, 44>>
  @@ "{\"a\":\"1\",\"b\":\"1\",\"resource\":{\"a\":\"1\",\"b\":\"1\"},\"resourceType\":\"text\"}" :>
       <<215, 73, 112, 192, 138, 173, 205, 180, 248, 52, 39, 222, 21, 216, 3, 15,
         210, 56, 58, 32, 44, 66, 204, 253, 13, 32, 199, 17, 16, 42, 179, 55>>
  @@ "{\"a\":\"1\",\"b\":\"1\",\"resource\":{\"a\":\"1\",\"b\":\"2\"},\"resourceType\":\"text\"}" :>
       <<109, 129, 244, 2, 107, 159, 163, 131, 232, 45, 134, 165, 190, 68, 74, 55,
         44, 15, 19, 116, 1, 226, 200, 78, 174, 101, 123, 159, 227, 189, 24, 114>>
  @@ "{\"a\":\"1\",\"b\":\"1\",\"resource\":{\"a\":\"2\",\"b\":\"1\"},\"resourceType\":\"text\"}" :>
       <<165, 105, 150, 205, 132, 216, 18, 230, 50, 44, 98, 125, 127, 240, 135, 211,
         187, 104, 70, 72, 35, 43, 126, 240, 105, 36, 250, 27, 130, 193, 49, 41>>
  @@ "{\"a\":\"1\",\"b\":\"1\",\"resource\":{\"a\":\"2\",\"b\":\"2\"},\"resourceType\":\"text\"}" :>
       <<43, 245, 98, 129, 219, 182, 245, 207, 17, 162, 207, 16, 32, 191, 251, 150,
         156, 251, 107, 206, 100, 153, 99, 73, 59, 2, 73, 61, 60, 91, 44, 196>>
  @@ "{\"resource\":{},\"resourceType\":\"text\",\"a\":\"1\"}" :>
       <<86, 10, 3, 162, 247, 251, 146, 160, 198, 212, 117, 110, 18, 180, 227, 189,
         8, 170, 165, 217, 134, 86, 39, 128, 201, 26, 147, 111, 245, 199, 3, 188>>
  @@ "{\"resource\":{\"a\":\"1\"},\"resourceType\":\"text\",\"a\":\"1\"}" :>
       <<102, 155, 91, 9, 103, 75, 249, 103, 168, 157, 46, 204, 159, 40, 86, 191,
         165, 141, 70, 54, 242, 120, 77, 232, 217, 204, 13, 53, 34, 153, 213, 209>>
  @@ "{\"resource\":{\"a\":\"2\"},\"resourceType\":\"text\",\"a\":\"1\"}" :>
       <<28, 177, 148, 128, 38, 14, 65, 4, 75, 18, 85, 218, 226, 247, 248, 236,
         221, 162, 131, 141, 209, 21, 200, 108, 170, 240, 172, 111, 174, 245, 3, 84>>
  @@ "{\"resource\":{},\"resourceType\":\"text\",\"b\":\"1\"}" :>
       <<0, 92, 127, 201, 182, 246, 227, 101, 251, 127, 162, 38, 73, 15, 19, 81,
         10, 188, 234, 132, 98, 232, 48, 245, 106, 239, 13, 159, 218, 138, 156, 247>>
  @@ "{\"resource\":{\"b\":\"1\"},\"resourceType\":\"text\",\"b\":\"1\"}" :>
       <<143, 28, 204, 35, 96, 194, 14, 203, 200, 139, 134, 229, 158, 161, 5, 122,
         230, 64, 194, 129, 23, 37, 31, 38, 171, 137, 100, 18, 35, 87, 123, 213>>
  @@ "{\"resource\":{\"b\":\"2\"},\"resourceType\":\"text\",\"b\":\"1\"}" :>
       <<204, 7, 162, 208, 142, 228, 36, 169, 179, 86, 61, 139, 12, 150, 220, 205,
         2, 18, 28, 98, 219, 67, 171, 95, 175, 7, 209, 121, 191, 50, 226, 227>>
  @@ "{\"resource\":{},\"resourceType\":\"text\",\"a\":\"1\",\"b\":\"1\"}" :>
       <<236, 91, 169, 161, 120, 85, 133, 11, 192, 197, 74, 217, 224, 104, 132, 10,
         51, 193, 65, 204, 232, 140, 112, 216, 176, 189, 217, 79, 210, 194, 229, 107>>
  @@ "{\"resource\":{\"a\":\"1\"},\"resourceType\":\"text\",\"a\":\"1\",\"b\":\"1\"}" :>
       <<57, 51, 74, 18, 97, 255, 237, 43, 138, 205, 248, 254, 32, 191, 192, 166,
         89, 33, 168, 202, 182, 5, 213, 62, 131, 36, 139, 171, 172, 191, 31, 138>>
  @@ "{\"resource\":{\"a\":\"2\"},\"resourceType\":\"text\",\"a\":\"1\",\"b\":\"1\"}" :>
       <<22, 198, 161, 181, 211, 34, 162, 187, 242, 81, 228, 143, 179, 238, 239, 173,
         202, 128, 79, 122, 5, 173, 155, 237, 26, 171, 126, 231, 148, 212, 19, 106>>
  @@ "{\"resource\":{\"b\":\"1\"},\"resourceType\":\"text\",\"a\":\"1\",\"b\":\"1\"}" :>
       <<167, 168, 228, 97, 46, 136, 111, 78, 31, 198, 24, 177, 90, 242, 114, 90,
         104, 235, 118, 163, 103, 110, 195, 172, 163, 38, 71, 92, 203, 197, 1, 66>>
  @@ "{\"resource\":{\"b\":\"2\"},\"resourceType\":\"text\",\"a\":\"1\",\"b\":\"1\"}" :>
       <<40, 120, 244, 83, 184, 107, 42, 215, 205, 38, 210, 236, 57, 60, 112, 63,
         5, 61, 22, 52, 59, 242, 210, 148, 177, 192, 121, 228, 45, 250, 208, 244>>
  @@ "{\"resource\":{\"a\":\"1\",\"b\":\"1\"},\"resourceType\":\"text\",\"a\":\"1\",\"b\":\"1\"}" :>
       <<172, 15, 55, 104, 96, 225, 165, 105, 205, 46, 71, 109, 135, 204, 103, 137,
         217, 24, 191, 84, 3, 40, 53, 178, 216, 24, 58, 194, 47, 218, 248, 252>>
  @@ "{\"resource\":{\"a\":\"1\",\"b\":\"2\"},\"resourceType\":\"text\",\"a\":\"1\",\"b\":\"1\"}" :>
       <<117, 154, 230, 212, 235, 118, 112, 242, 191, 176, 7, 181, 248, 93, 160, 116,
         225, 124, 109, 154, 228, 64, 110, 225, 246, 17, 141, 114, 187, 255, 103, 37>>
  @@ "{\"resource\":{\"a\":\"2\",\"b\":\"1\"},\"resourceType\":\"text\",\"a\":\"1\",\"b\":\"1\"}" :>
       <<75, 2, 14, 28, 104, 252, 6, 150, 130, 123, 205, 28, 247, 239, 61, 32,
         45, 109, 78, 15, 217, 77, 242, 139, 241, 122, 21, 150, 176, 131, 4, 64>>
  @@ "{\"resource\":{\"a\":\"2\",\"b\":\"2\"},\"resourceType\":\"text\",\"a\":\"1\",\"b\":\"1\"}" :>
       <<202, 199, 212, 226, 55, 138, 7, 170, 70, 153, 111, 171, 25, 30, 212, 238,
         194, 238, 29, 249, 93, 136, 208, 172, 217, 199, 36, 129, 79, 194, 197, 138>>
  @@ "{\"resource\":{},\"resourceType\":\"text\",\"b\":\"1\",\"a\":\"1\"}" :>
       <<244, 139, 89, 134, 36, 197, 115, 76, 84, 253, 87, 184, 201, 62, 206, 208,
         78, 30, 90, 2, 128, 101, 181, 159, 229, 41, 212, 4, 139, 67, 10, 148>>
  @@ "{\"resource\":{\"a\":\"1\"},\"resourceType\":\"text\",\"b\":\"1\",\"a\":\"1\"}" :>
       <<142, 229, 198, 44, 124, 97, 201, 41, 37, 157, 127, 202, 248, 184, 228, 94,
         249, 241, 145, 195, 58, 233, 84, 248, 231, 104, 45, 178, 209, 17, 44, 233>>
  @@ "{\"resource\":{\"a\":\"2\"},\"resourceType\":\"text\",\"b\":\"1\",\"a\":\"1\"}" :>
       <<53, 184, 89, 247, 232, 143, 38, 73, 158, 6, 174, 43, 33, 52, 194, 172,
         131, 90, 0, 206, 249, 101, 247, 220, 226, 37, 16, 149, 181, 134, 15, 101>>
  @@ "{\"resource\":{\"b\":\"1\"},\"resourceType\":\"text\",\"b\":\"1\",\"a\":\"1\"}" :>
       <<98, 77, 41, 39, 107, 1, 190, 55, 131, 29, 104, 252, 198, 144, 7, 238,
         57, 216, 32, 120, 24, 220, 105, 75, 197, 157, 58, 211, 83, 113, 74, 52>>
  @@ "{\"resource\":{\"b\":\"2\"},\"resourceType\":\"text\",\"b\":\"1\",\"a\":\"1\"}" :>
       <<137, 48, 193, 114, 34, 194, 125, 140, 241, 162, 122, 63, 181, 75, 196, 225,
         39, 92, 147, 0, 72, 95, 232, 24, 185, 238, 90, 80, 186, 91, 242, 186>>
  @@ "{\"resource\":{\"b\":\"1\",\"a\":\"1\"},\"resourceType\":\"text\",\"b\":\"1\",\"a\":\"1\"}" :>
       <<212, 221, 103, 215, 60, 232, 239, 133, 33, 9, 255, 246, 113, 223, 194, 117,
         114, 23, 227, 200, 228, 250, 45, 61, 76, 83, 70, 17, 4, 89, 113, 111>>
  @@ "{\"resource\":{\"b\":\"2\",\"a\":\"1\"},\"resourceType\":\"text\",\"b\":\"1\",\"a\":\"1\"}" :>
       <<22, 46, 20, 51, 135, 182, 87, 179, 185, 21, 168, 230, 106, 178, 232, 77,
         193, 74, 168, 218, 150, 88, 136, 237, 94, 4, 33, 2, 60, 59, 108, 14>>
  @@ "{\"resource\":{\"b\":\"1\",\"a\":\"2\"},\"resourceType\":\"text\",\"b\":\"1\",\"a\":\"1\"}" :>
       <<226, 61, 73, 90, 187, 172, 168, 32, 56, 165, 109, 17, 2, 224, 64, 215,
         198, 169, 65, 83, 158, 164, 204, 47, 221, 3, 68, 147, 91, 151, 253, 111>>
  @@ "{\"resource\":{\"b\":\"2\",\"a\":\"2\"},\"resourceType\":\"text\",\"b\":\"1\",\"a\":\"1\"}" :>
       <<81, 24, 199, 175, 180, 199, 46, 21, 29, 75, 142, 69, 102, 168, 207, 175,
         0, 96, 5, 69, 16, 162, 62, 25, 119, 163, 210, 174, 45, 226, 34, 75>>
  @@ "doi:10.1000/182" :>
       <<19, 101, 199, 119, 44, 17, 49, 249, 112, 50, 58, 137, 46, 201, 169, 221,
         206, 195, 80, 36, 115, 92, 138, 179, 117, 223, 127, 177, 109, 11, 192, 25>>
  @@ "1365c7772c1131f970323a892ec9a9ddcec35024735c8ab375df7fb16d0bc019" :>
       <<12, 6, 149, 185, 240, 212, 122, 212, 156, 2, 1, 72, 241, 29, 212, 253,
         214, 131, 109, 19, 154, 56, 236, 145, 89, 220, 19, 243, 135, 28, 153, 116>>
  @@ "doi:10.1000/183" :>
       <<55, 188, 149, 67, 83, 1, 214, 231, 25, 232, 140, 228, 230, 246, 185, 66,
         38, 60, 215, 209, 36, 21, 250, 72, 207, 148, 177, 236, 236, 197, 1, 233>>
  @@ "37bc95435301d6e719e88ce4e6f6b942263cd7d12415fa48cf94b1ececc501e9" :>
       <<89, 158, 113, 207, 115, 23, 87, 116, 42, 234, 141, 179, 101, 217, 145, 94,
         141, 7, 224, 129, 118, 174, 182, 250, 103, 110, 183, 104, 130, 213, 151, 115>>
  @@ "swhid:10.1000/182" :>
       <<109, 37, 48, 103, 220, 6, 19, 185, 184, 63, 236, 80, 61, 235, 168, 70,
         206, 155, 39, 231, 200, 8, 157, 113, 254, 150, 189, 176, 112, 205, 229, 54>>
  @@ "6d253067dc0613b9b83fec503deba846ce9b27e7c8089d71fe96bdb070cde536" :>
       <<36, 173, 93, 195, 88, 43, 242, 25, 130, 220, 72, 239, 124, 196, 11, 254,
         52, 243, 197, 31, 171, 131, 43, 165, 221, 251, 190, 208, 168, 198, 73, 170>>
  @@ "swhid:10.1000/183" :>
       <<157, 93, 48, 31, 203, 214, 198, 135, 218, 182, 22, 43, 157, 177, 242, 114,
         64, 134, 30, 58, 104, 65, 58, 90, 188, 145, 223, 220, 125, 166, 236, 204>>
  @@ "9d5d301fcbd6c687dab6162b9db1f27240861e3a68413a5abc91dfdc7da6eccc" :>
       <<106, 59, 94, 67, 233, 14, 9, 94, 143, 72, 240, 42, 126, 175, 240, 50,
         136, 112, 19, 58, 45, 46, 141, 9, 121, 147, 179, 171, 173, 171, 191, 227>>
  @@ "isbn:10.1000/182" :>
       <<23, 154, 87, 126, 238, 77, 195, 203, 25, 24, 243, 94, 38, 120, 218, 130,
         166, 222, 96, 102, 130, 32, 100, 12, 68, 75, 197, 94, 115, 38, 207, 88>>
  @@ "179a577eee4dc3cb1918f35e2678da82a6de60668220640c444bc55e7326cf58" :>
       <<222, 148, 197, 166, 92, 14, 132, 243, 165, 14, 3, 15, 193, 108, 156, 230,
         68, 83, 66, 24, 33, 79, 164, 161, 112, 253, 232, 225, 88, 66, 196, 81>>
  @@ "isbn:10.1000/183" :>
       <<27, 59, 83, 37, 73, 183, 24, 189, 190, 124, 40, 143, 167, 65, 35, 44,
         72, 133, 1, 162, 181, 66, 200, 249, 136, 121, 84, 218, 49, 20, 110, 28>>
  @@ "1b3b532549b718bdbe7c288fa741232c488501a2b542c8f9887954da31146e1c" :>
       <<67, 73, 237, 202, 5, 229, 78, 172, 18, 175, 17, 15, 142, 93, 205, 85,
         119, 106, 241, 64, 126, 154, 12, 191, 16, 115, 248, 244, 17, 19, 155, 170>>
  @@ "ark:10.1000/182" :>
       <<161, 55, 136, 79, 226, 170, 196, 86, 201, 176, 135, 24, 226, 166, 178, 90,
         30, 72, 157, 212, 98, 199, 77, 163, 74, 113, 247, 187, 11, 50, 207, 113>>
  @@ "a137884fe2aac456c9b08718e2a6b25a1e489dd462c74da34a71f7bb0b32cf71" :>
       <<150, 44, 255, 189, 23, 194, 31, 156, 108, 210, 36, 128, 254, 197, 147, 196,
         45, 234, 108, 181, 161, 34, 239, 148, 29, 9, 223, 222, 145, 7, 196, 121>>
  @@ "ark:10.1000/183" :>
       <<95, 169, 221, 61, 90, 54, 123, 135, 147, 184, 254, 201, 217, 109, 0, 161,
         195, 189, 131, 124, 117, 238, 32, 220, 109, 83, 28, 214, 196, 22, 12, 7>>
  @@ "5fa9dd3d5a367b8793b8fec9d96d00a1c3bd837c75ee20dc6d531cd6c4160c07" :>
       <<163, 14, 222, 252, 217, 236, 16, 47, 91, 177, 248, 151, 127, 160, 181, 22,
         145, 239, 109, 159, 123, 58, 4, 224, 70, 35, 218, 129, 115, 30, 127, 131>>
  @@ "{\"architecture\":\"\",\"parametersSize\":\"\",\"resourceType\":\"ai-model\",\"trainingDatasetRef\":\"\"}" :>
       <<82, 96, 192, 45, 234, 133, 25, 143, 76, 32, 10, 181, 115, 24, 135, 188,
         15, 70, 177, 108, 49, 132, 240, 91, 230, 141, 115, 169, 107, 128, 132, 245>>
  @@ "{\"categories\":[],\"resourceType\":\"dataset\",\"sampleCount\":\"\",\"structure\":\"\"}" :>
       <<91, 102, 252, 161, 181, 203, 215, 92, 45, 61, 99, 22, 153, 197, 209, 8,
         253, 61, 182, 154, 250, 32, 97, 197, 23, 228, 66, 193, 113, 39, 143, 225>>
  @@ "{\"language\":\"\",\"path\":\"\",\"repository\":\"\",\"resourceType\":\"code\"}" :>
       <<221, 123, 165, 35, 173, 47, 134, 231, 161, 121, 152, 48, 53, 54, 52, 239,
         225, 148, 235, 121, 94, 83, 5, 87, 36, 126, 139, 95, 92, 138, 153, 121>>

Sha256(str) == Sha256Table[str]

\* lines 1113-1122
createDIDThrows(resourceType, metadata) ==
  \/ resourceType \notin DOMAIN RESOURCE_TYPES
  \/ \E i \in 1..Len(RESOURCE_TYPES[resourceType].requiredMetadata) :
        Falsy(metadata, RESOURCE_TYPES[resourceType].requiredMetadata[i])

\* lines 1124-1129: the did of the returned structure
createDID(resourceType, metadata, t) ==
  LET metadataString == JSONStringify(_normalizeMetadata(resourceType, metadata, t))
      metadataHash == Sha256(metadataString)
  IN  "did:asset:" \o resourceType \o ":" \o Join(Base58Encode(metadataHash))

OnlyDID == UNCHANGED <<now, otherVars, graphVars, rrmVars, searchVars, wm>>

CreateDID(resourceType, metadata) ==
  /\ IF createDIDThrows(resourceType, metadata)
     THEN /\ ret' = [op |-> "createDID", threw |-> TRUE]
          /\ UNCHANGED issued
     ELSE /\ ret' = [op |-> "createDID", threw |-> FALSE,
                     did |-> createDID(resourceType, metadata, now)]
          /\ issued' = issued \cup
                {[resourceType |-> resourceType, metadata |-> metadata,
                  did |-> createDID(resourceType, metadata, now)]}
  /\ OnlyDID

----------------------------------------------------------------------------
(* SpecDID: createDID called again and again while the clock advances.     *)

TextMeta == [content_hash |-> "h1", mime_type |-> "text/plain", charset |-> "utf-8"]
CodeMeta == [code_hash |-> "h1", language |-> "en", version |-> "1"]
DIDMetas ==
  { TextMeta,
    Merge(TextMeta, [language |-> "en"]),
    [content_hash |-> "h1", mime_type |-> "text/plain", charset |-> ""],
    CodeMeta }
DIDTypes == {"text", "code", "font"}

InitDID ==
  /\ now = 0
  /\ InitGraph
  /\ InitRrm
  /\ InitSearch
  /\ InitOther
  /\ issued = {}
  /\ wm = None
  /\ ret = [op |-> "new"]

NextDID ==
  \/ \E resourceType \in DIDTypes, metadata \in DIDMetas : CreateDID(resourceType, metadata)
  \/ Tick

SpecDID == InitDID /\ [][NextDID]_vars

\* C1: two createDID calls with the same resource type and the same
\* metadata return the same did, whatever the clock read at each call and
\* whatever was called in between.
C1_SameInputSameDID ==
  \A x \in issued, y \in issued :
     (x.resourceType = y.resourceType /\ x.metadata = y.metadata) => x.did = y.did

----------------------------------------------------------------------------
(* src/unnamed/part_004: DIDFactory.  Strings are sequences of characters, *)
(* so that split(':'), substring, the base64 alphabet and the hex digits   *)
(* are computed.                                                           *)

Chars ==
  [ did |-> <<"d", "i", "d">>, asset |-> <<"a", "s", "s", "e", "t">>,
    key |-> <<"k", "e", "y">>,
    text |-> <<"t", "e", "x", "t">>, image |-> <<"i", "m", "a", "g", "e">>,
    aiModel |-> <<"a", "i", "-", "m", "o", "d", "e", "l">>,
    dataset |-> <<"d", "a", "t", "a", "s", "e", "t">>, code |-> <<"c", "o", "d", "e">> ]

\* lines 44-50
COMPRESSION_FORMATS == {"none", "base58", "base64url", "hex", "tlv"}

HexDigits == <<"0", "1", "2", "3", "4", "5", "6", "7", "8", "9", "a", "b", "c", "d", "e", "f">>

Base64Alphabet ==
  << "A", "B", "C", "D", "E", "F", "G", "H", "I", "J", "K", "L", "M", "N", "O", "P",
     "Q", "R", "S", "T", "U", "V", "W", "X", "Y", "Z", "a", "b", "c", "d", "e", "f",
     "g", "h", "i", "j", "k", "l", "m", "n", "o", "p", "q", "r", "s", "t", "u", "v",
     "w", "x", "y", "z", "0", "1", "2", "3", "4", "5", "6", "7", "8", "9", "+", "/" >>

\* hash.digest('hex') / buffer.toString('hex')
ToHex(bytes) ==
  [i \in 1..(2 * Len(bytes)) |->
     IF i % 2 = 1 THEN HexDigits[(bytes[(i + 1) \div 2] \div 16) + 1]
                  ELSE HexDigits[(bytes[i \div 2] % 16) + 1]]

\* Buffer.from(str, 'hex'): whole pairs of hex digits, up to the first pair
\* that is none
FromHex(str) ==
  LET IsPair(k) == /\ IndexIn(HexDigits, str[2 * k - 1]) >= 0
                   /\ IndexIn(HexDigits, str[2 * k]) >= 0
      pairs == Len(str) \div 2
      n == IF \A k \in 1..pairs : IsPair(k) THEN pairs
           ELSE (CHOOSE k \in 1..pairs : ~IsPair(k) /\ \A j \in 1..(k - 1) : IsPair(j)) - 1
  IN  [k \in 1..n |-> IndexIn(HexDigits, str[2 * k - 1]) * 16 + IndexIn(HexDigits, str[2 * k])]

\* buffer.toString('base64'): character j of the output belongs to the
\* group of three bytes g = (j - 1) \div 4
ToBase64(bytes) ==
  LET n == Len(bytes)
      Byte(k) == IF k <= n THEN bytes[k] ELSE 0
      Char(j) ==
        LET g == (j - 1) \div 4
            b1 == Byte(3 * g + 1)
            b2 == Byte(3 * g + 2)
            b3 == Byte(3 * g + 3)
            r == (j - 1) % 4
        IN  CASE r = 0 -> Base64Alphabet[(b1 \div 4) + 1]
              [] r = 1 -> Base64Alphabet[((b1 % 4) * 16 + (b2 \div 16)) + 1]
              [] r = 2 -> IF 3 * g + 2 > n THEN "="
                          ELSE Base64Alphabet[((b2 % 16) * 4 + (b3 \div 64)) + 1]
              [] r = 3 -> IF 3 * g + 3 > n THEN "="
                          ELSE Base64Alphabet[(b3 % 64) + 1]
  IN  [j \in 1..(4 * ((n + 2) \div 3)) |-> Char(j)]

\* str.replace(/x/g, y) for single characters
ReplaceAll(str, x, y) == [i \in 1..Len(str) |-> IF str[i] = x THEN y ELSE str[i]]
RemoveAll(str, x) == SelectSeq(str, LAMBDA c : c # x)

\* Buffer.from(str, 'base64'): the characters before the first '=', those
\* outside the alphabet skipped; '-' and '_' count as '+' and '/'
Sextets(str) ==
  LET upto == IF \E i \in 1..Len(str) : str[i] = "="
              THEN (CHOOSE i \in 1..Len(str) : str[i] = "=" /\ \A j \in 1..(i - 1) : str[j] # "=") - 1
              ELSE Len(str)
      std == ReplaceAll(ReplaceAll(SubSeq(str, 1, upto), "-", "+"), "_", "/")
      valid == SelectSeq(std, LAMBDA c : IndexIn(Base64Alphabet, c) >= 0)
  IN  [i \in 1..Len(valid) |-> IndexIn(Base64Alphabet, valid[i])]

\* four sextets give three bytes; two or three left over give one or two
FromSextets(sx) ==
  LET Sx(k) == IF k <= Len(sx) THEN sx[k] ELSE 0
      Byte(k) ==
        LET g == (k - 1) \div 3
            s1 == Sx(4 * g + 1)
            s2 == Sx(4 * g + 2)
            s3 == Sx(4 * g + 3)
            s4 == Sx(4 * g + 4)
            r == (k - 1) % 3
        IN  CASE r = 0 -> s1 * 4 + (s2 \div 16)
              [] r = 1 -> (s2 % 16) * 16 + (s3 \div 4)
              [] r = 2 -> (s3 % 4) * 64 + s4
  IN  [k \in 1..((Len(sx) * 6) \div 8) |-> Byte(k)]

FromBase64(str) == FromSextets(Sextets(str))

----------------------------------------------------------------------------
(* src/unnamed/part_004: DIDFactory._generateHash on objects.  An object   *)
(* is the sequence of its <<key, value>> pairs in insertion order; a value *)
(* is JStr(s), JArr(elements) or JObj(pairs), so that typeof is computed.  *)

JStr(s) == <<"string", s>>
JArr(elements) == <<"array", elements>>
JObj(pairs) == <<"object", pairs>>

\* Object.keys(o)
ObjectKeys(pairs) == [i \in 1..Len(pairs) |-> pairs[i][1]]

HasKey(pairs, k) == \E i \in 1..Len(pairs) : pairs[i][1] = k
Get(pairs, k) == pairs[CHOOSE i \in 1..Len(pairs) : pairs[i][1] = k][2]

\* the keys of the model in the order of their UTF-16 code units, which is
\* the order of Array.prototype.sort()
KeyOrder ==
  << "a", "architecture", "b", "categories", "language", "parametersSize", "path",
     "repository", "resource", "resourceType", "sampleCount", "structure",
     "trainingDatasetRef" >>

\* Object.keys(resource) as it comes, the whitelist without the sort
InsertionOrder(keys) == keys

\* line 94: Object.keys(resource).sort()
Sort(keys) ==
  SortSeq(keys, LAMBDA x, y : IndexIn(KeyOrder, x) < IndexIn(KeyOrder, y))

\* JSON.stringify(value, whitelist): at every depth an object writes the
\* whitelisted keys it has, in the order of the whitelist
RECURSIVE Stringify(_, _)
RECURSIVE StringifyMembers(_, _, _, _)
RECURSIVE StringifyElements(_, _, _)
StringifyElements(elements, i, whitelist) ==
  IF i > Len(elements) THEN ""
  ELSE (IF i > 1 THEN "," ELSE "") \o Stringify(elements[i], whitelist)
         \o StringifyElements(elements, i + 1, whitelist)

StringifyMembers(pairs, ks, i, whitelist) ==
  IF i > Len(ks) THEN ""
  ELSE (IF i > 1 THEN "," ELSE "")
         \o "\"" \o ks[i] \o "\":" \o Stringify(Get(pairs, ks[i]), whitelist)
         \o StringifyMembers(pairs, ks, i + 1, whitelist)

Stringify(value, whitelist) ==
  IF value[1] = "string" THEN "\"" \o value[2] \o "\""
  ELSE IF value[1] = "array" THEN "[" \o StringifyElements(value[2], 1, whitelist) \o "]"
  ELSE LET ks == SelectSeq(whitelist, LAMBDA k : HasKey(value[2], k))
       IN  "{" \o StringifyMembers(value[2], ks, 1, whitelist) \o "}"

\* lines 92-94 and 99, for an object resource
_generateHashOfObject(resource) ==
  ToHex(Sha256(Stringify(JObj(resource), Sort(ObjectKeys(resource)))))

\* { ...a, ...b }: a key of b that a has keeps its place and takes b's value
RECURSIVE Spread(_, _)
Spread(a, b) ==
  IF b = <<>> THEN a
  ELSE LET k == Head(b)[1]
           v == Head(b)[2]
           a1 == IF HasKey(a, k)
                 THEN [i \in 1..Len(a) |-> IF a[i][1] = k THEN <<k, v>> ELSE a[i]]
                 ELSE Append(a, <<k, v>>)
       IN  Spread(a1, Tail(b))

----------------------------------------------------------------------------
(* DIDFactory.generateDID and decompressDID.                               *)

\* lines 85-100, for a string resource
_generateHash(resource) == ToHex(Sha256(resource))

\* lines 160-188; the formats outside COMPRESSION_FORMATS throw
_compressIdentifier(id, format) ==
  CASE format = "none" -> id
    [] format = "base58" -> SubSeq(id, 1, 32)
    [] format = "base64url" ->
         RemoveAll(ReplaceAll(ReplaceAll(ToBase64(FromHex(id)), "+", "-"), "/", "_"), "=")
    [] format = "hex" -> id
    [] format = "tlv" -> SubSeq(id, 1, 32)

\* specificProps[k] || ''
PropOr(specificProps, k, default) ==
  IF HasKey(specificProps, k) /\ Get(specificProps, k) # JStr("")
  THEN Get(specificProps, k) ELSE default

\* lines 112-141: the object that is hashed for an AI model, a dataset or
\* code (the resource is no part of it), None for the other resource types
TypedMetadata(resourceType, specificProps) ==
  LET Typed(defaults) ==
        Some(Spread(Spread([i \in 1..Len(defaults) |->
                              <<defaults[i][1],
                                PropOr(specificProps, defaults[i][1], defaults[i][2])>>],
                           specificProps),
                    << <<"resourceType", JStr(Join(resourceType))>> >>))
  IN  CASE Join(resourceType) = "ai-model" ->
             Typed(<< <<"architecture", JStr("")>>, <<"parametersSize", JStr("")>>,
                      <<"trainingDatasetRef", JStr("")>> >>)
        [] Join(resourceType) = "dataset" ->
             Typed(<< <<"structure", JStr("")>>, <<"sampleCount", JStr("")>>,
                      <<"categories", JArr(<<>>)>> >>)
        [] Join(resourceType) = "code" ->
             Typed(<< <<"language", JStr("")>>, <<"repository", JStr("")>>,
                      <<"path", JStr("")>> >>)
        [] OTHER -> None

\* lines 110-151, for a string resource
_generateUniqueIdOfString(resource, resourceType, specificProps) ==
  IF TypedMetadata(resourceType, specificProps) # None
  THEN _generateHashOfObject(TypedMetadata(resourceType, specificProps)[1])
  ELSE _generateHash(resource)

\* lines 201-222 after uniqueId is computed; options = [method, compression,
\* owner] and possibly specificProps, owner None when absent
FormatDID(uniqueId, resourceType, options) ==
  LET compressedId == _compressIdentifier(uniqueId, options.compression)
      did == Chars.did \o <<":">> \o options.method \o <<":">> \o resourceType
               \o <<":">> \o compressedId
  IN  IF options.owner # None
      THEN did \o <<":">> \o SubSeq(_generateHash(options.owner[1]), 1, 8)
      ELSE did

\* lines 201-222, for a string resource
generateDID(resource, resourceType, options) ==
  FormatDID(_generateUniqueIdOfString(resource, resourceType,
              IF "specificProps" \in DOMAIN options THEN options.specificProps ELSE <<>>),
            resourceType, options)

\* str.split(':')
Split(str) ==
  LET colons == SelectSeq([i \in 1..Len(str) |-> i], LAMBDA i : str[i] = ":")
      n == Len(colons)
      From(k) == IF k = 1 THEN 1 ELSE colons[k - 1] + 1
      To(k) == IF k = n + 1 THEN Len(str) ELSE colons[k] - 1
  IN  [k \in 1..(n + 1) |-> SubSeq(str, From(k), To(k))]

\* while (padded.length % 4 !== 0) padded += '='
PadTo4(str) == str \o [i \in 1..((4 - (Len(str) % 4)) % 4) |-> "="]

\* lines 466-469
decompressDIDThrows(did) ==
  Len(Split(did)) < 4 \/ Split(did)[1] # Chars.did

\* lines 471-519: format is always base64url (line 478)
decompressDID(did) ==
  LET parts == Split(did)
      compressedId == parts[4]
      padded == PadTo4(compressedId)
  IN  [method |-> parts[2],
       resourceType |-> parts[3],
       identifier |-> ToHex(FromBase64(ReplaceAll(ReplaceAll(padded, "-", "+"), "_", "/"))),
       owner |-> IF Len(parts) > 4 THEN Some(parts[5]) ELSE None]

OnlyFactory == UNCHANGED <<now, otherVars, graphVars, rrmVars, searchVars, issued, wm>>

GenerateDID(resource, resourceType, options) ==
  /\ ret' = [op |-> "generateDID", resource |-> resource, resourceType |-> resourceType,
             options |-> options, value |-> generateDID(resource, resourceType, options)]
  /\ OnlyFactory

\* decompressDID of the identifier the last generateDID returned
DecompressDID ==
  /\ ret.op = "generateDID"
  /\ IF decompressDIDThrows(ret.value)
     THEN ret' = [op |-> "decompressDID", threw |-> TRUE, generated |-> ret]
     ELSE ret' = [op |-> "decompressDID", threw |-> FALSE, generated |-> ret,
                  value |-> decompressDID(ret.value)]
  /\ OnlyFactory

----------------------------------------------------------------------------
(* SpecFactory: generateDID followed by decompressDID.                     *)

FactoryResources == {"hello", "world"}
FactoryTypes == {Chars.text, Chars.image}
FactoryMethods == {Chars.asset, Chars.key}
FactoryOwners == {None, Some("alice"), Some("bob")}

InitFactory ==
  /\ now = 0
  /\ InitGraph
  /\ InitRrm
  /\ InitSearch
  /\ InitOther
  /\ issued = {}
  /\ wm = None
  /\ ret = [op |-> "new"]

NextFactory ==
  \/ \E resource \in FactoryResources, resourceType \in FactoryTypes,
        options \in [method : FactoryMethods, compression : COMPRESSION_FORMATS,
                     owner : FactoryOwners] :
       GenerateDID(resource, resourceType, options)
  \/ DecompressDID

SpecFactory == InitFactory /\ [][NextFactory]_vars

\* C10: for every digest and each of the encodings hex, base58 and
\* base64url, decompressDID of the identifier generateDID produced returns
\* the same method, the same resource type and the digest in hex, and the
\* owner tag is the first 8 hex digits of SHA-256(owner) when an owner was
\* given.
C10_DecompressInvertsGenerate ==
  (ret.op = "decompressDID"
     /\ ret.generated.options.compression \in {"hex", "base58", "base64url"}) =>
    /\ ~ret.threw
    /\ ret.value.method = ret.generated.options.method
    /\ ret.value.resourceType = ret.generated.resourceType
    /\ ret.value.identifier = ToHex(Sha256(ret.generated.resource))
    /\ ret.generated.options.owner # None =>
         ret.value.owner = Some(SubSeq(ToHex(Sha256(ret.generated.options.owner[1])), 1, 8))

----------------------------------------------------------------------------
(* src/verification/watermarking.js: TextWatermarkStrategy.  A text is a   *)
(* sequence of UTF-16 code units; a bit string is a sequence of 0s and 1s. *)
(* ret.text of an embed is the text the call was given.                    *)

regularSpace == 32
noBreakSpace == 160
zeroWidthSpace == 8203

\* charCode.toString(2)
RECURSIVE ToStringBase2(_)
ToStringBase2(n) == IF n < 2 THEN <<n>> ELSE Append(ToStringBase2(n \div 2), n % 2)

\* str.padStart(8, '0')
PadStart8(bits) == [i \in 1..(IF Len(bits) < 8 THEN 8 - Len(bits) ELSE 0) |-> 0] \o bits

\* lines 522-530
RECURSIVE _textToBinary(_)
_textToBinary(text) ==
  IF text = <<>> THEN <<>>
  ELSE PadStart8(ToStringBase2(Head(text))) \o _textToBinary(Tail(text))

\* parseInt(byte, 2) of eight binary digits
ParseInt2(byte) ==
  byte[1] * 128 + byte[2] * 64 + byte[3] * 32 + byte[4] * 16
    + byte[5] * 8 + byte[6] * 4 + byte[7] * 2 + byte[8]

\* lines 539-551
_binaryToText(binary) ==
  LET paddedLength == ((Len(binary) + 7) \div 8) * 8
      paddedBinary == binary \o [i \in 1..(paddedLength - Len(binary)) |-> 0]
  IN  [k \in 1..(paddedLength \div 8) |-> ParseInt2(SubSeq(paddedBinary, 8 * k - 7, 8 * k))]

\* The payloads of the model and their JSON.stringify texts: {} and []
PayloadJSON == [emptyObject |-> <<123, 125>>, emptyArray |-> <<91, 93>>]
Payloads == DOMAIN PayloadJSON

\* JSON.parse on a payload text followed by any code units: white space
\* (tab, line feed, carriage return, space) around the value is skipped, any
\* other unit after the value is a SyntaxError (None)
JsonWhitespace == {9, 10, 13, 32}
JSONParse(text) ==
  LET body == SelectSeq(text, LAMBDA c : c \notin JsonWhitespace)
      inner == \E i \in 1..Len(text), j \in 1..Len(text), k \in 1..Len(text) :
                  i < j /\ j < k /\ text[i] \notin JsonWhitespace
                  /\ text[j] \in JsonWhitespace /\ text[k] \notin JsonWhitespace
  IN  IF ~inner /\ \E p \in Payloads : PayloadJSON[p] = body
      THEN Some(CHOOSE p \in Payloads : PayloadJSON[p] = body)
      ELSE None

\* lines 241-246
SpacesIndices(text) == SelectSeq([i \in 1..Len(text) |-> i], LAMBDA i : text[i] = regularSpace)

\* lines 249-251
_embedWithSpacesThrows(text, payloadBinary) ==
  Len(SpacesIndices(text)) < Len(payloadBinary)

\* lines 255-276: the loop from bit i on
RECURSIVE EmbedSpacesLoop(_, _, _, _, _)
EmbedSpacesLoop(result, spacesIndices, payloadBinary, options, i) ==
  IF i > Len(payloadBinary) THEN result
  ELSE
    LET spaceIndex == spacesIndices[i]
        replacement == IF payloadBinary[i] = 0 THEN <<regularSpace>>
                       ELSE IF options.useZeroWidth
                            THEN <<zeroWidthSpace, regularSpace>>
                            ELSE <<noBreakSpace>>
        lengthDiff == Len(replacement) - 1
    IN  EmbedSpacesLoop(
          SubSeq(result, 1, spaceIndex - 1) \o replacement
            \o SubSeq(result, spaceIndex + 1, Len(result)),
          [j \in 1..Len(spacesIndices) |->
             IF j > i THEN spacesIndices[j] + lengthDiff ELSE spacesIndices[j]],
          payloadBinary, options, i + 1)

\* lines 230-279
_embedWithSpaces(text, payloadBinary, options) ==
  EmbedSpacesLoop(text, SpacesIndices(text), payloadBinary, options, 1)

\* lines 296-309: one bit per regular or no-break space
RECURSIVE SpaceBits(_, _)
SpaceBits(text, i) ==
  IF i > Len(text) THEN <<>>
  ELSE IF text[i] = regularSpace
       THEN <<IF i > 1 /\ text[i - 1] = zeroWidthSpace THEN 1 ELSE 0>> \o SpaceBits(text, i + 1)
  ELSE IF text[i] = noBreakSpace THEN <<1>> \o SpaceBits(text, i + 1)
  ELSE SpaceBits(text, i + 1)

\* lines 289-317: None is null
_extractFromSpaces(text) ==
  IF Len(SpaceBits(text, 1)) < 16 THEN None ELSE Some(SpaceBits(text, 1))

\* lines 328-375.  The pairs for the straight quotes are not legible in the
\* source as stored (their alternatives read as the straight quotes
\* themselves); the texts of the model hold no quotes.
punctuationPairs ==
  << [original |-> 46, alternative |-> <<46, 46, 46>>],
     [original |-> 45, alternative |-> <<8211>>] >>

PairOf(c) ==
  punctuationPairs[CHOOSE k \in 1..Len(punctuationPairs) : punctuationPairs[k].original = c]

\* lines 342-349
PunctuationIndices(text) ==
  LET at == SelectSeq([i \in 1..Len(text) |-> i],
                      LAMBDA i : \E k \in 1..Len(punctuationPairs) :
                                    punctuationPairs[k].original = text[i])
  IN  [n \in 1..Len(at) |-> [index |-> at[n], pair |-> PairOf(text[at[n]])]]

\* lines 352-354
_embedWithPunctuationThrows(text, payloadBinary) ==
  Len(PunctuationIndices(text)) < Len(payloadBinary)

\* the positions after the one just written are not moved
KeepIndices(punctuationIndices, i, lengthDiff) == punctuationIndices

\* lines 366-372
AdjustIndices(punctuationIndices, i, lengthDiff) ==
  [j \in 1..Len(punctuationIndices) |->
     IF j > i
     THEN [punctuationIndices[j] EXCEPT !.index = @ + lengthDiff]
     ELSE punctuationIndices[j]]

\* lines 357-373: the loop from bit i on
RECURSIVE EmbedPunctuationLoop(_, _, _, _)
EmbedPunctuationLoop(result, punctuationIndices, payloadBinary, i) ==
  IF i > Len(payloadBinary) THEN result
  ELSE
    LET index == punctuationIndices[i].index
        pair == punctuationIndices[i].pair
        replacement == IF payloadBinary[i] = 0 THEN <<pair.original>>
                       ELSE pair.alternative
        lengthDiff == Len(replacement) - 1
    IN  EmbedPunctuationLoop(
          SubSeq(result, 1, index - 1) \o replacement
            \o SubSeq(result, index + 1, Len(result)),
          AdjustIndices(punctuationIndices, i, lengthDiff),
          payloadBinary, i + 1)

\* lines 328-375
_embedWithPunctuation(text, payloadBinary) ==
  EmbedPunctuationLoop(text, PunctuationIndices(text), payloadBinary, 1)

\* lines 429-436, as UTF-16 code units
synonymPairs ==
  << [original |-> <<98, 105, 103>>, alternative |-> <<108, 97, 114, 103, 101>>],
     [original |-> <<115, 109, 97, 108, 108>>, alternative |-> <<116, 105, 110, 121>>],
     [original |-> <<103, 111, 111, 100>>, alternative |-> <<103, 114, 101, 97, 116>>],
     [original |-> <<98, 97, 100>>, alternative |-> <<112, 111, 111, 114>>],
     [original |-> <<113, 117, 105, 99, 107>>, alternative |-> <<102, 97, 115, 116>>],
     [original |-> <<99, 114, 101, 97, 116, 101>>, alternative |-> <<109, 97, 107, 101>>] >>

\* \w of a regular expression: a digit, a letter or the underscore
IsWordChar(c) == c \in (48..57) \cup (65..90) \cup {95} \cup (97..122)

\* text.split(/\b/): the maximal runs of word characters and of other
\* characters, in order
SplitWords(text) ==
  LET starts == SelectSeq([i \in 1..Len(text) |-> i],
                          LAMBDA i : \/ i = 1
                                     \/ IsWordChar(text[i]) # IsWordChar(text[i - 1]))
  IN  [n \in 1..Len(starts) |->
         SubSeq(text, starts[n],
                IF n < Len(starts) THEN starts[n + 1] - 1 ELSE Len(text))]

\* toLowerCase / toUpperCase on the letters A-Z and a-z
ToLowerCase(str) == [i \in 1..Len(str) |-> IF str[i] \in 65..90 THEN str[i] + 32 ELSE str[i]]
ToUpperCase(str) == [i \in 1..Len(str) |-> IF str[i] \in 97..122 THEN str[i] - 32 ELSE str[i]]

IsSynonym(word) ==
  \E k \in 1..Len(synonymPairs) :
     word = synonymPairs[k].original \/ word = synonymPairs[k].alternative

\* lines 443-463: the n-th word that is one of the synonyms takes the form
\* bit n asks for, in the case of its first letter, as long as bits are
\* left; [words, payloadIndex], payloadIndex counting from 1
EmbedSynonymsLoop(words, payloadBinary) ==
  LET synonymIndices == SelectSeq([i \in 1..Len(words) |-> i],
                                  LAMBDA i : IsSynonym(ToLowerCase(words[i])))
      used == IF Len(synonymIndices) < Len(payloadBinary)
              THEN Len(synonymIndices) ELSE Len(payloadBinary)
      Written(i, n) ==
        LET word == ToLowerCase(words[i])
            pair == synonymPairs[CHOOSE k \in 1..Len(synonymPairs) :
                                    \/ word = synonymPairs[k].original
                                    \/ word = synonymPairs[k].alternative]
            replacement == IF payloadBinary[n] = 0
                           THEN pair.original ELSE pair.alternative
        IN  IF <<words[i][1]>> = ToUpperCase(<<words[i][1]>>)
            THEN ToUpperCase(<<replacement[1]>>) \o Tail(replacement)
            ELSE replacement
  IN  [words |->
         [i \in 1..Len(words) |->
            IF \E n \in 1..used : synonymIndices[n] = i
            THEN Written(i, CHOOSE n \in 1..used : synonymIndices[n] = i)
            ELSE words[i]],
       payloadIndex |-> used + 1]

\* words.join('')
RECURSIVE JoinWords(_)
JoinWords(words) ==
  IF words = <<>> THEN <<>>
  ELSE IF Len(words) = 1 THEN words[1]
  ELSE JoinWords(SubSeq(words, 1, Len(words) \div 2))
         \o JoinWords(SubSeq(words, (Len(words) \div 2) + 1, Len(words)))

\* a check that lets every text through
_embedWithSynonymsNeverThrows(text, payloadBinary) == FALSE

\* lines 466-468; payloadIndex counts from 1 here
_embedWithSynonymsThrows(text, payloadBinary) ==
  EmbedSynonymsLoop(SplitWords(text), payloadBinary).payloadIndex
    < Len(payloadBinary) + 1

\* lines 426-471
_embedWithSynonyms(text, payloadBinary) ==
  JoinWords(EmbedSynonymsLoop(SplitWords(text), payloadBinary).words)

\* payloadBinary.slice(0, Math.floor(length / 2)) and .slice(Math.floor(length / 2))
FirstHalf(payloadBinary) == SubSeq(payloadBinary, 1, Len(payloadBinary) \div 2)
SecondHalf(payloadBinary) ==
  SubSeq(payloadBinary, (Len(payloadBinary) \div 2) + 1, Len(payloadBinary))

\* lines 145-172; options.strategy absent is 'spaces'
embedThrows(text, payload, options) ==
  LET payloadBinary == _textToBinary(PayloadJSON[payload])
  IN  CASE options.strategy = "spaces" -> _embedWithSpacesThrows(text, payloadBinary)
        [] options.strategy = "punctuation" ->
             _embedWithPunctuationThrows(text, payloadBinary)
        [] options.strategy = "synonyms" -> _embedWithSynonymsThrows(text, payloadBinary)
        [] options.strategy = "combined" ->
             \/ _embedWithSpacesThrows(text, FirstHalf(payloadBinary))
             \/ _embedWithPunctuationThrows(
                  _embedWithSpaces(text, FirstHalf(payloadBinary), options),
                  SecondHalf(payloadBinary))
        [] OTHER -> TRUE

embed(text, payload, options) ==
  LET payloadBinary == _textToBinary(PayloadJSON[payload])
  IN  CASE options.strategy = "spaces" -> _embedWithSpaces(text, payloadBinary, options)
        [] options.strategy = "punctuation" -> _embedWithPunctuation(text, payloadBinary)
        [] options.strategy = "synonyms" -> _embedWithSynonyms(text, payloadBinary)
        [] options.strategy = "combined" ->
             _embedWithPunctuation(
               _embedWithSpaces(text, FirstHalf(payloadBinary), options),
               SecondHalf(payloadBinary))

\* lines 175-219 with options.strategy 'spaces' (or absent): None is null
extract(text) ==
  LET binaryPayload == _extractFromSpaces(text)
  IN  IF binaryPayload = None THEN None
      ELSE JSONParse(_binaryToText(binaryPayload[1]))

OnlyWatermark == UNCHANGED <<now, otherVars, graphVars, rrmVars, searchVars, issued>>

\* watermarked = strategy.embed(text, payload, options)
Embed ==
  /\ wm # None
  /\ wm[1].stage = "plain"
  /\ IF embedThrows(wm[1].text, wm[1].payload, wm[1].options)
     THEN /\ wm' = Some([wm[1] EXCEPT !.stage = "refused"])
          /\ ret' = [op |-> "embed", threw |-> TRUE, text |-> wm[1].text]
     ELSE /\ wm' = Some([wm[1] EXCEPT !.stage = "marked",
                                      !.text = embed(wm[1].text, wm[1].payload, wm[1].options)])
          /\ ret' = [op |-> "embed", threw |-> FALSE, text |-> wm[1].text]
  /\ OnlyWatermark

\* strategy.extract(watermarked, options)
Extract ==
  /\ wm # None
  /\ wm[1].stage = "marked"
  /\ wm' = Some([wm[1] EXCEPT !.stage = "read"])
  /\ ret' = [op |-> "extract", value |-> extract(wm[1].text),
             binaryPayload |-> _extractFromSpaces(wm[1].text),
             payloadStr |-> IF _extractFromSpaces(wm[1].text) = None THEN None
                            ELSE Some(_binaryToText(_extractFromSpaces(wm[1].text)[1]))]
  /\ OnlyWatermark

----------------------------------------------------------------------------
(* SpecWM: embed followed by extract on the spaces channel, on texts that  *)
(* have one candidate position too few, exactly enough, or up to           *)
(* MaxExtraSpaces more than the payload has bits.                          *)

MaxExtraSpaces == 3

\* n spaces, each after a word of `word` letters 'a' (word = 0: spaces only)
TextOf(n, word) ==
  [i \in 1..(n * (word + 1)) |-> IF i % (word + 1) = 0 THEN regularSpace ELSE 97]

WMTexts(payload) ==
  LET bits == Len(_textToBinary(PayloadJSON[payload]))
  IN  { TextOf(n, word) : n \in (bits - 1)..(bits + MaxExtraSpaces), word \in {0, 1} }

InitWM ==
  /\ now = 0
  /\ InitGraph
  /\ InitRrm
  /\ InitSearch
  /\ InitOther
  /\ issued = {}
  /\ \E payload \in Payloads, useZeroWidth \in BOOLEAN :
       \E text \in WMTexts(payload) :
          wm = Some([text |-> text, payload |-> payload,
                     options |-> [useZeroWidth |-> useZeroWidth, strategy |-> "spaces"],
                     stage |-> "plain"])
  /\ ret = [op |-> "new"]

NextWM ==
  \/ Embed
  \/ Extract

SpecWM == InitWM /\ [][NextWM]_vars

\* C2: when the text has at least as many candidate positions as the
\* payload has bits, extract(embed(T, P)) on the same channel returns P.
C2_ExtractReturnsPayload ==
  ret.op = "extract" => ret.value = Some(wm[1].payload)

\* the bytes of the whole groups of eight bits of a bit string
WholeBytes(binary) ==
  [k \in 1..(Len(binary) \div 8) |-> ParseInt2(SubSeq(binary, 8 * k - 7, 8 * k))]

\* C21: extract regroups the recovered bits into bytes after truncating them
\* to a multiple of 8: the decoded string has one character per whole group
\* of eight bits and none for the bits left over.
C21_TrailingBitsAreDiscarded ==
  (ret.op = "extract" /\ ret.binaryPayload # None)
  => ret.payloadStr = Some(WholeBytes(ret.binaryPayload[1]))

----------------------------------------------------------------------------
(* SpecBase58: a buffer is encoded and the string is decoded again.        *)

MaxBufferLen == 3
Base58Bytes == {0, 1, 57, 58, 255}
Base58Buffers ==
  UNION {[1..n -> Base58Bytes] : n \in 0..MaxBufferLen}

OnlyBase58 == UNCHANGED <<now, graphVars, rrmVars, searchVars, issued, wm, generated, layers>>

\* base58.encode(buffer)
Encode(buffer) ==
  /\ b58' = [buffer |-> buffer, string |-> Base58Encode(buffer)]
  /\ ret' = [op |-> "encode", value |-> Base58Encode(buffer)]
  /\ OnlyBase58

\* base58.decode(string) of the string encode returned
Decode ==
  /\ b58 # None
  /\ ret.op = "encode"
  /\ ret' = IF Base58DecodeThrows(b58.string)
            THEN [op |-> "decode", threw |-> TRUE]
            ELSE [op |-> "decode", threw |-> FALSE,
                  value |-> Base58Decode(b58.string)]
  /\ UNCHANGED b58
  /\ OnlyBase58

InitBase58 ==
  /\ now = 0
  /\ InitGraph
  /\ InitRrm
  /\ InitSearch
  /\ issued = {}
  /\ wm = None
  /\ b58 = None
  /\ generated = {}
  /\ layers = None
  /\ ret = [op |-> "new"]

NextBase58 ==
  \/ \E buffer \in Base58Buffers : Encode(buffer)
  \/ Decode

SpecBase58 == InitBase58 /\ [][NextBase58]_vars

\* C11: decoding the base58 string of a buffer gives the buffer back, byte
\* for byte, for the empty buffer, for buffers of several bytes and for
\* buffers of zero bytes alike.
C11_DecodeInvertsEncode ==
  ret.op = "decode" => (~ret.threw /\ ret.value = b58.buffer)

----------------------------------------------------------------------------
(* DIDFactory.generateDID on object resources.                             *)

\* lines 110-151, for an object resource
_generateUniqueId(resource, resourceType, specificProps) ==
  IF TypedMetadata(resourceType, specificProps) # None
  THEN _generateHashOfObject(TypedMetadata(resourceType, specificProps)[1])
  ELSE _generateHashOfObject(
         Spread(<< <<"resource", JObj(resource)>>,
                   <<"resourceType", JStr(Join(resourceType))>> >>, specificProps))

\* lines 201-222, for an object resource
generateDIDOfObject(resource, resourceType, options) ==
  FormatDID(_generateUniqueId(resource, resourceType, options.specificProps),
            resourceType, options)

----------------------------------------------------------------------------
(* SpecHash: generateDID called on attribute objects that list the same    *)
(* keys in different orders.                                               *)

MaxGenerated == 2
HashKeys == {"a", "b"}

\* the objects of at most two keys with the given values
ObjectsOver(values) ==
  { o \in UNION {[1..n -> HashKeys \X values] : n \in 0..2} :
      \A i \in 1..Len(o), j \in 1..Len(o) : i # j => o[i][1] # o[j][1] }

HashResources == ObjectsOver({JStr("1"), JStr("2")})
\* no type-specific properties, or both keys in either order
HashProps == {o \in ObjectsOver({JStr("1")}) : Len(o) # 1}
HashOptions ==
  [method : {Chars.asset}, compression : {"base64url"}, owner : {None},
   specificProps : HashProps]

OnlyHash == UNCHANGED <<now, graphVars, rrmVars, searchVars, issued, wm, b58, layers>>

GenerateDIDOfObject(resource, resourceType, options) ==
  /\ Cardinality(generated) < MaxGenerated
  /\ generated' = generated \cup
       {[resource |-> resource, resourceType |-> resourceType, options |-> options,
         uniqueId |-> _generateUniqueId(resource, resourceType, options.specificProps),
         did |-> generateDIDOfObject(resource, resourceType, options)]}
  /\ ret' = [op |-> "generateDID", threw |-> FALSE,
             did |-> generateDIDOfObject(resource, resourceType, options)]
  /\ OnlyHash

InitHash ==
  /\ now = 0
  /\ InitGraph
  /\ InitRrm
  /\ InitSearch
  /\ issued = {}
  /\ wm = None
  /\ b58 = None
  /\ generated = {}
  /\ layers = None
  /\ ret = [op |-> "new"]

NextHash ==
  \E resource \in HashResources, options \in HashOptions :
     GenerateDIDOfObject(resource, Chars.text, options)

SpecHash == InitHash /\ [][NextHash]_vars

\* the object as the set of its members, whatever their order
Members(pairs) == {pairs[i] : i \in 1..Len(pairs)}

SameUpToKeyOrder(x, y) ==
  /\ Members(x.resource) = Members(y.resource)
  /\ Members(x.options.specificProps) = Members(y.options.specificProps)
  /\ x.resourceType = y.resourceType
  /\ x.options.method = y.options.method
  /\ x.options.compression = y.options.compression

\* C12: two attribute objects that differ only in the order of their keys,
\* at the top level (the type-specific properties) or one level down (the
\* resource object), have the same digest and generateDID returns the same
\* identifier for them.
C12_KeyOrderIsIrrelevant ==
  \A x \in generated, y \in generated :
     SameUpToKeyOrder(x, y) => (x.uniqueId = y.uniqueId /\ x.did = y.did)

\* two calls whose resource and whose properties both list two keys in
\* opposite orders
C12_Witness ==
  \E x \in generated, y \in generated :
     /\ SameUpToKeyOrder(x, y)
     /\ Len(x.resource) = 2 /\ x.resource # y.resource
     /\ Len(x.options.specificProps) = 2
     /\ x.options.specificProps # y.options.specificProps
     /\ x.did = y.did

----------------------------------------------------------------------------
(* SpecEmbed: one embed call on each channel, on texts that hold letters,  *)
(* spaces, punctuation marks and synonym words in numbers around the       *)
(* number of bits the channel has to carry.                                *)

MaxSpare == 1
Strategies == {"spaces", "punctuation", "synonyms", "combined"}

\* nS times "a ", nP times "b." or "b-" in turn, nW times "big," "Large,"
\* or "tiny," in turn
EmbedText(nS, nP, nW) ==
  JoinWords([j \in 1..nS |-> <<97, 32>>])
    \o JoinWords([j \in 1..nP |-> <<98, IF j % 2 = 1 THEN 46 ELSE 45>>])
    \o JoinWords([j \in 1..nW |->
         (CASE j % 3 = 1 -> <<98, 105, 103>>
            [] j % 3 = 2 -> <<76, 97, 114, 103, 101>>
            [] OTHER -> <<116, 105, 110, 121>>) \o <<44>>])

\* none, or from one too few up to MaxSpare too many for half the bits and
\* for all the bits
CountsAround(bits) ==
  {0} \cup (((bits \div 2) - 1)..((bits \div 2) + MaxSpare))
      \cup ((bits - 1)..(bits + MaxSpare))

EmbedTexts(payload) ==
  LET bits == Len(_textToBinary(PayloadJSON[payload]))
  IN  { EmbedText(nS, nP, nW) :
          nS \in CountsAround(bits), nP \in CountsAround(bits),
          nW \in {0} \cup ((bits - 1)..(bits + MaxSpare)) }

InitEmbed ==
  /\ now = 0
  /\ InitGraph
  /\ InitRrm
  /\ InitSearch
  /\ InitOther
  /\ issued = {}
  /\ \E payload \in Payloads, useZeroWidth \in BOOLEAN, strategy \in Strategies :
       \E text \in EmbedTexts(payload) :
          wm = Some([text |-> text, payload |-> payload,
                     options |-> [useZeroWidth |-> useZeroWidth, strategy |-> strategy],
                     stage |-> "plain"])
  /\ ret = [op |-> "new"]

NextEmbed == Embed

SpecEmbed == InitEmbed /\ [][NextEmbed]_vars

\* The text cut into its positions: a position that is no candidate of the
\* channel admits only its own characters, a candidate admits each form the
\* channel may write there.
CharSegment(c, strategy) ==
  IF c = 32 /\ strategy \in {"spaces", "combined"}
  THEN [unit |-> <<c>>, forms |-> {<<32>>, <<160>>, <<8203, 32>>}]
  ELSE IF c = 46 /\ strategy \in {"punctuation", "combined"}
  THEN [unit |-> <<c>>, forms |-> {<<46>>, <<46, 46, 46>>}]
  ELSE IF c = 45 /\ strategy \in {"punctuation", "combined"}
  THEN [unit |-> <<c>>, forms |-> {<<45>>, <<8211>>}]
  ELSE [unit |-> <<c>>, forms |-> {<<c>>}]

Capitalised(word) == ToUpperCase(<<word[1]>>) \o Tail(word)

WordSegment(word) ==
  IF IsSynonym(ToLowerCase(word))
  THEN LET k == CHOOSE k \in 1..Len(synonymPairs) :
                   \/ ToLowerCase(word) = synonymPairs[k].original
                   \/ ToLowerCase(word) = synonymPairs[k].alternative
       IN  [unit |-> word,
            forms |-> {synonymPairs[k].original, synonymPairs[k].alternative,
                       Capitalised(synonymPairs[k].original),
                       Capitalised(synonymPairs[k].alternative)}]
  ELSE [unit |-> word, forms |-> {word}]

Segments(text, strategy) ==
  IF strategy = "synonyms"
  THEN LET words == SplitWords(text)
       IN  [k \in 1..Len(words) |-> WordSegment(words[k])]
  ELSE [k \in 1..Len(text) |-> CharSegment(text[k], strategy)]

IsCandidate(segment) == Cardinality(segment.forms) > 1

\* where out can stand after segments a..b, each in one of its forms, have
\* been read from position j on
RECURSIVE Ends(_, _, _, _, _)
Ends(segments, a, b, out, j) ==
  IF a > b THEN {j}
  ELSE IF a = b
  THEN { j + Len(form) :
           form \in { f \in segments[a].forms :
                        /\ j + Len(f) - 1 <= Len(out)
                        /\ SubSeq(out, j, j + Len(f) - 1) = f } }
  ELSE UNION { Ends(segments, ((a + b) \div 2) + 1, b, out, j2) :
                 j2 \in Ends(segments, a, (a + b) \div 2, out, j) }

\* out is the segments in order, each in one of its forms, and nothing else
Framed(segments, out) == (Len(out) + 1) \in Ends(segments, 1, Len(segments), out, 1)

\* C13: where embed succeeds, its output is the text it was given with
\* nothing but substitutions at candidate positions of the channel: every
\* other character is in place, none is inserted, deleted or changed.
C13_EmbedKeepsNonCandidates ==
  (ret.op = "embed" /\ ~ret.threw) =>
     Framed(Segments(ret.text, wm[1].options.strategy), wm[1].text)

\* a combined embed that lengthened the text, on a text that also holds
\* characters and words the two channels must leave alone
C13_Witness ==
  /\ ret.op = "embed" /\ ~ret.threw
  /\ wm[1].options.strategy = "combined"
  /\ Len(wm[1].text) > Len(ret.text)
  /\ \E i \in 1..Len(ret.text) : ret.text[i] = 44
  /\ \E i \in 1..Len(wm[1].text) : wm[1].text[i] = 8211

\* the candidate positions the text has for a channel
Capacity(text, strategy) ==
  Len(SelectSeq(Segments(text, strategy), IsCandidate))

\* the bits a strategy puts on each channel it uses
Load(bits, strategy) ==
  CASE strategy = "combined" ->
         {<<"spaces", bits \div 2>>, <<"punctuation", bits - (bits \div 2)>>}
    [] OTHER -> {<<strategy, bits>>}

Insufficient(text, payload, strategy) ==
  \E load \in Load(Len(_textToBinary(PayloadJSON[payload])), strategy) :
     Capacity(text, load[1]) < load[2]

\* C14: on every channel, the halves of `combined` included, embed throws
\* and hands back no text when the text has fewer candidate positions than
\* the channel has bits to carry.
C14_EmbedRefusesShortTexts ==
  (ret.op = "embed" /\ Insufficient(ret.text, wm[1].payload, wm[1].options.strategy))
     => (ret.threw /\ wm[1].stage = "refused" /\ wm[1].text = ret.text)

\* refusals on each channel; for `combined`, one where the spaces suffice
\* and the punctuation is one mark short
C14_Witness ==
  /\ ret.op = "embed" /\ ret.threw
  /\ wm[1].options.strategy = "combined"
  /\ Capacity(ret.text, "spaces") >= 8
  /\ Capacity(ret.text, "punctuation") = 7
  /\ Insufficient(ret.text, wm[1].payload, "combined")

----------------------------------------------------------------------------
(* src/unnamed/part_006: MetadataLayer and HierarchicalMetadataManager.    *)
(* A layer is [type, data, updated]; an absent layer (null) is None.       *)

\* lines 19-28
METADATA_STANDARDS ==
  [ DID |-> "did", C2PA |-> "c2pa", MODEL_CARD |-> "modelCard",
    DATA_SHEET |-> "dataSheet", PROV |-> "prov", MPEG21_REL |-> "mpeg21Rel",
    SCHEMA_ORG |-> "schemaOrg", GENERAL |-> "general" ]

\* lines 50-54
MetadataLayer(type, data, t) == [type |-> type, data |-> data, updated |-> t]

\* lines 76-88, for a field name without dots
LayerGet(layer, field, defaultValue) ==
  IF field \in DOMAIN layer.data THEN layer.data[field] ELSE defaultValue

\* lines 117-119
getData(layer) == layer.data

\* lines 177-188
toDIDDocument(layer) ==
  [k \in {"@context", "id", "controller", "verificationMethod", "authentication",
          "service", "created", "updated"} |->
     CASE k = "@context" ->
            <<"https://www.w3.org/ns/did/v1">> \o LayerGet(layer, "context", <<>>)
       [] k = "id" -> LayerGet(layer, "id", Null)
       [] k = "controller" -> LayerGet(layer, "controller", Null)
       [] k = "created" -> LayerGet(layer, "created", Null)
       [] k = "updated" -> LayerGet(layer, "updated", ToISOString(layer.updated))
       [] OTHER -> LayerGet(layer, k, <<>>)]

\* lines 226-230
toC2PAManifest(layer) == layer.data

\* lines 405-417
toPROVJSON(layer) ==
  [k \in {"prefix", "entity", "activity", "agent", "wasGeneratedBy", "used",
          "wasAttributedTo", "wasDerivedFrom", "wasAssociatedWith"} |->
     LayerGet(layer, k, EmptyObj)]

\* lines 287-305 and 720-732: the slot a resource type's characteristics go to
CharacteristicsStandard(resourceType) ==
  CASE resourceType = "ai-model" -> METADATA_STANDARDS.MODEL_CARD
    [] resourceType = "dataset" -> METADATA_STANDARDS.DATA_SHEET
    [] OTHER -> METADATA_STANDARDS.GENERAL

\* lines 667-675
NewLayers ==
  [tag \in {METADATA_STANDARDS.DID, METADATA_STANDARDS.C2PA,
            METADATA_STANDARDS.MODEL_CARD, METADATA_STANDARDS.DATA_SHEET,
            METADATA_STANDARDS.PROV, METADATA_STANDARDS.MPEG21_REL,
            METADATA_STANDARDS.GENERAL} |-> None]

\* lines 908-961, the loop from tag i on; this.layers[layer] is undefined
\* for a tag that names no slot
RECURSIVE SelectLayers(_, _, _, _)
SelectLayers(ls, tags, i, selective) ==
  IF i > Len(tags) THEN selective
  ELSE
    LET layer == tags[i]
    IN  IF layer \notin DOMAIN ls \/ ls[layer] = None
        THEN SelectLayers(ls, tags, i + 1, selective)
        ELSE SelectLayers(ls, tags, i + 1,
               CASE layer = METADATA_STANDARDS.DID ->
                      Merge(selective, toDIDDocument(ls[layer][1]))
                 [] layer = METADATA_STANDARDS.C2PA ->
                      Put(selective, "provenance", toC2PAManifest(ls[layer][1]))
                 [] layer = METADATA_STANDARDS.MODEL_CARD ->
                      Put(selective, "modelCard", getData(ls[layer][1]))
                 [] layer = METADATA_STANDARDS.DATA_SHEET ->
                      Put(selective, "dataSheet", getData(ls[layer][1]))
                 [] layer = METADATA_STANDARDS.PROV ->
                      Put(selective, "lineage", toPROVJSON(ls[layer][1]))
                 [] layer = METADATA_STANDARDS.MPEG21_REL ->
                      Put(selective, "rights", getData(ls[layer][1]))
                 [] layer = METADATA_STANDARDS.GENERAL ->
                      Put(selective, "characteristics", getData(ls[layer][1])))

\* lines 908-961 with the default format 'jsonld', which _serialize returns
\* as it is (lines 876-879)
createSelectiveView(ls, tags) ==
  LET base == [k \in {"@context"} |-> <<"https://www.w3.org/ns/did/v1">>]
      idLayer == ls[METADATA_STANDARDS.DID]
      selective == IF idLayer # None
                   THEN Put(base, "id", LayerGet(idLayer[1], "id", Null))
                   ELSE base
  IN  SelectLayers(ls, tags, 1, selective)

OnlyLayers == UNCHANGED <<now, graphVars, rrmVars, searchVars, issued, wm, b58, generated>>

\* lines 680-683
SetIdentificationLayer(didData) ==
  /\ layers' = [layers EXCEPT ![METADATA_STANDARDS.DID] =
                  Some(MetadataLayer(METADATA_STANDARDS.DID, didData, now))]
  /\ ret' = [op |-> "setIdentificationLayer"]
  /\ OnlyLayers

\* lines 698-701
SetProvenanceLayer(provenanceData) ==
  /\ layers' = [layers EXCEPT ![METADATA_STANDARDS.C2PA] =
                  Some(MetadataLayer(METADATA_STANDARDS.C2PA, provenanceData, now))]
  /\ ret' = [op |-> "setProvenanceLayer"]
  /\ OnlyLayers

\* lines 717-733
SetCharacteristicsLayer(resourceType, characteristicsData) ==
  /\ layers' = [layers EXCEPT ![CharacteristicsStandard(resourceType)] =
                  Some(MetadataLayer(CharacteristicsStandard(resourceType),
                         Merge([resourceType |-> resourceType], characteristicsData),
                         now))]
  /\ ret' = [op |-> "setCharacteristicsLayer"]
  /\ OnlyLayers

\* lines 756-759
SetLineageLayer(lineageData) ==
  /\ layers' = [layers EXCEPT ![METADATA_STANDARDS.PROV] =
                  Some(MetadataLayer(METADATA_STANDARDS.PROV, lineageData, now))]
  /\ ret' = [op |-> "setLineageLayer"]
  /\ OnlyLayers

\* lines 774-777
SetRightsLayer(rightsData) ==
  /\ layers' = [layers EXCEPT ![METADATA_STANDARDS.MPEG21_REL] =
                  Some(MetadataLayer(METADATA_STANDARDS.MPEG21_REL, rightsData, now))]
  /\ ret' = [op |-> "setRightsLayer"]
  /\ OnlyLayers

\* lines 908-961
CreateSelectiveView(tags) ==
  /\ ret' = [op |-> "createSelectiveView", layers |-> tags,
             value |-> createSelectiveView(layers, tags)]
  /\ UNCHANGED layers
  /\ OnlyLayers

----------------------------------------------------------------------------
(* SpecLayers: the five layers are set in any order and selective views    *)
(* are requested by the tags of the metadata bundle.                       *)

MaxViewTags == 2

DidData == [id |-> "did:example:1", controller |-> "did:example:owner"]
ProvenanceData == [claim |-> [title |-> "t"]]
CharacteristicsData == [name |-> "n", description |-> "d"]
LineageData == [entity |-> [e1 |-> EmptyObj]]
RightsData == [license |-> [type |-> "cc-by", url |-> "u"]]

\* the tags of the bundle's layers: identity, provenance, characteristics,
\* lineage and rights, the last both by the name the bundle gives it and by
\* the name of its slot
ViewTags == {"did", "c2pa", "general", "prov", "odrl", "mpeg21Rel"}
ViewRequests == UNION {[1..n -> ViewTags] : n \in 0..MaxViewTags}

InitLayers ==
  /\ now = 0
  /\ InitGraph
  /\ InitRrm
  /\ InitSearch
  /\ issued = {}
  /\ wm = None
  /\ b58 = None
  /\ generated = {}
  /\ layers = NewLayers
  /\ ret = [op |-> "new"]

NextLayers ==
  \/ SetIdentificationLayer(DidData)
  \/ SetProvenanceLayer(ProvenanceData)
  \/ SetCharacteristicsLayer("text", CharacteristicsData)
  \/ SetLineageLayer(LineageData)
  \/ SetRightsLayer(RightsData)
  \/ \E tags \in ViewRequests : CreateSelectiveView(tags)

SpecLayers == InitLayers /\ [][NextLayers]_vars

\* the key a layer's sub-object goes under, and the tag the bundle gives
\* the layer
LayerKeys ==
  [c2pa |-> "provenance", general |-> "characteristics", prov |-> "lineage",
   odrl |-> "rights"]

\* the slot that holds the layer of a tag
SlotOf(tag) == IF tag = "odrl" THEN METADATA_STANDARDS.MPEG21_REL ELSE tag

Requested(tag) == \E i \in 1..Len(ret.layers) : ret.layers[i] = tag

AllFiveSet ==
  \A tag \in {"did", "c2pa", "general", "prov", "mpeg21Rel"} : layers[tag] # None

\* C15: a selective view holds `id` when the identity layer is present, the
\* sub-object of every requested layer that is present, and no key for a
\* layer that is absent or not requested; with all five layers set, the
\* view for [c2pa, odrl] holds id, the provenance sub-object and the rights
\* sub-object.
C15_SelectiveView ==
  ret.op = "createSelectiveView" =>
    /\ layers["did"] # None =>
         ("id" \in DOMAIN ret.value /\ ret.value["id"] = DidData.id)
    /\ layers["did"] = None => "id" \notin DOMAIN ret.value
    /\ \A tag \in DOMAIN LayerKeys :
         IF Requested(tag) /\ layers[SlotOf(tag)] # None
         THEN LayerKeys[tag] \in DOMAIN ret.value
         ELSE (~Requested(SlotOf(tag))) => LayerKeys[tag] \notin DOMAIN ret.value
    /\ (AllFiveSet /\ ret.layers = <<"c2pa", "odrl">>) =>
         /\ ret.value["provenance"] = ProvenanceData
         /\ "rights" \in DOMAIN ret.value

----------------------------------------------------------------------------
(* SpecGraph, continued: the failing calls of addEdge.                     *)

\* C16: addEdge throws when the source or the target is no node of the
\* graph or the type is not one of RELATIONSHIP_TYPES, and a call that
\* throws leaves the nodes and the edge list as they were.
C16_AddEdgeRejects ==
  [][\A f \in GraphDids, t \in GraphDids, ty \in GraphTypes, md \in GraphEdgeMetas :
       (AddEdge(f, t, ty, md)
          /\ (f \notin DOMAIN nodes \/ t \notin DOMAIN nodes
                \/ ty \notin RELATIONSHIP_TYPES))
       => (ret'.threw /\ nodes' = nodes /\ edges' = edges)]_vars

\* a call refused on a graph that has two nodes and an edge, so that there
\* was something to leave alone
C16_Witness ==
  /\ ret.op = "addEdge" /\ ret.threw
  /\ DOMAIN nodes = {DidA, DidB}
  /\ Len(edges) >= 1

----------------------------------------------------------------------------
(* src/relationship/resource_relationship_manager.js: findRelatedResources *)
(* and its wrappers.  The result Map is the sequence of its keys in        *)
(* insertion order.                                                        *)

RrmTypes ==
  [ WAS_DERIVED_FROM |-> <<"wasDerivedFrom">>, WAS_REVISION_OF |-> <<"wasRevisionOf">>,
    WAS_QUOTED_FROM |-> <<"wasQuotedFrom">>, DEPENDS_ON |-> <<"dependsOn">>,
    REQUIRES |-> <<"requires">>, USES |-> <<"uses">> ]

\* lines 372-401: traverse(nodeDid, currentDepth) and its two loops over
\* the edges of the node; st is [visited, result]
RECURSIVE traverse(_, _, _, _, _, _)
RECURSIVE TraverseEdges(_, _, _, _, _, _, _, _)
TraverseEdges(m, did, opts, es, i, far, currentDepth, st) ==
  IF i > Len(es) THEN st
  ELSE LET edge == m.edgeObjs[es[i]]
       IN  TraverseEdges(m, did, opts, es, i + 1, far, currentDepth,
             IF opts.types = None \/ Includes(opts.types[1], edge.type)
             THEN traverse(m, did, opts, edge[far], currentDepth + 1, st)
             ELSE st)

traverse(m, did, opts, nodeDid, currentDepth, st) ==
  IF currentDepth > opts.depth \/ nodeDid \in st.visited THEN st
  ELSE
    LET st1 == [visited |-> st.visited \cup {nodeDid},
                result |-> IF nodeDid # did THEN Append(st.result, nodeDid)
                           ELSE st.result]
        outEdges == IF Has(m.outgoingEdges, nodeDid) THEN m.outgoingEdges[nodeDid]
                    ELSE <<>>
        inEdges == IF Has(m.incomingEdges, nodeDid) THEN m.incomingEdges[nodeDid]
                   ELSE <<>>
        st2 == IF opts.outgoing
               THEN TraverseEdges(m, did, opts, outEdges, 1, "targetDid", currentDepth, st1)
               ELSE st1
    IN  IF opts.incoming
        THEN TraverseEdges(m, did, opts, inEdges, 1, "sourceDid", currentDepth, st2)
        ELSE st2

\* lines 358-408; options carries all four fields
findRelatedResources(m, did, options) ==
  traverse(m, did, options, did, 0, [visited |-> {}, result |-> <<>>]).result

\* lines 472-484 and 492-504
DependencyTypes == <<RrmTypes.DEPENDS_ON, RrmTypes.REQUIRES, RrmTypes.USES>>
findDependents(m, did, maxDepth) ==
  findRelatedResources(m, did, [types |-> Some(DependencyTypes), incoming |-> TRUE,
                                outgoing |-> FALSE, depth |-> maxDepth])
findDependencies(m, did, maxDepth) ==
  findRelatedResources(m, did, [types |-> Some(DependencyTypes), incoming |-> FALSE,
                                outgoing |-> TRUE, depth |-> maxDepth])

\* lines 512-524 and 532-544
DerivationTypes ==
  <<RrmTypes.WAS_DERIVED_FROM, RrmTypes.WAS_REVISION_OF, RrmTypes.WAS_QUOTED_FROM>>
findDerivatives(m, did, maxDepth) ==
  findRelatedResources(m, did, [types |-> Some(DerivationTypes), incoming |-> TRUE,
                                outgoing |-> FALSE, depth |-> maxDepth])
findSources(m, did, maxDepth) ==
  findRelatedResources(m, did, [types |-> Some(DerivationTypes), incoming |-> FALSE,
                                outgoing |-> TRUE, depth |-> maxDepth])

\* a query leaves the manager as it is; ret holds the query and its result
Query(op, did, options, value) ==
  /\ ret' = [op |-> op, did |-> did, options |-> options, value |-> value]
  /\ UNCHANGED rrmVars
  /\ OnlyRrm

FindRelatedResources(did, options) ==
  Query("findRelatedResources", did, options, findRelatedResources(M, did, options))

FindDependents(did, maxDepth) ==
  Query("findDependents", did,
        [types |-> Some(DependencyTypes), incoming |-> TRUE, outgoing |-> FALSE,
         depth |-> maxDepth],
        findDependents(M, did, maxDepth))

FindDependencies(did, maxDepth) ==
  Query("findDependencies", did,
        [types |-> Some(DependencyTypes), incoming |-> FALSE, outgoing |-> TRUE,
         depth |-> maxDepth],
        findDependencies(M, did, maxDepth))

FindDerivatives(did, maxDepth) ==
  Query("findDerivatives", did,
        [types |-> Some(DerivationTypes), incoming |-> TRUE, outgoing |-> FALSE,
         depth |-> maxDepth],
        findDerivatives(M, did, maxDepth))

FindSources(did, maxDepth) ==
  Query("findSources", did,
        [types |-> Some(DerivationTypes), incoming |-> FALSE, outgoing |-> TRUE,
         depth |-> maxDepth],
        findSources(M, did, maxDepth))

----------------------------------------------------------------------------
(* SpecRelated: the queries on managers of four nodes whose relationships  *)
(* were added in every order.                                              *)

MaxRelatedEdges == 4
RelatedDids == <<DidA, DidB, DidC, DidX>>
RelatedDepths == {1, 2}

\* the relationships a manager of the model is built from
RelatedEdges ==
  { <<DidA, DidB, RrmTypes.USES>>, <<DidA, DidC, RrmTypes.USES>>,
    <<DidB, DidC, RrmTypes.USES>>, <<DidC, DidX, RrmTypes.USES>>,
    <<DidX, DidA, RrmTypes.USES>>, <<DidB, DidX, RrmTypes.WAS_DERIVED_FROM>> }

\* the nodes the queries start from
QueryDids == {DidA, DidX}

RelatedEdgeSeqs ==
  { s \in UNION {[1..n -> RelatedEdges] : n \in 0..MaxRelatedEdges} :
      \A i \in 1..Len(s), j \in 1..Len(s) : i # j => s[i] # s[j] }

\* addNode for the four nodes, then addRelationship in the order of s
RECURSIVE AddRelationships(_, _, _)
AddRelationships(m, s, i) ==
  IF i > Len(s) THEN m
  ELSE AddRelationships(addRelationship(m, s[i][1], s[i][2], s[i][3], EmptyObj, 0),
                        s, i + 1)

RECURSIVE AddNodes(_, _)
AddNodes(m, i) ==
  IF i > Len(RelatedDids) THEN m
  ELSE AddNodes(rrmAddNode(m, RelatedDids[i], "dataset", EmptyObj, 0), i + 1)

BuildRrm(s) == AddRelationships(AddNodes(NewRrm, 1), s, 1)

RelatedOptions ==
  [types : {None, Some(<<RrmTypes.USES>>)}, incoming : BOOLEAN, outgoing : BOOLEAN,
   depth : RelatedDepths]

InitRelated ==
  /\ now = 0
  /\ InitGraph
  /\ InitSearch
  /\ InitOther
  /\ issued = {}
  /\ wm = None
  /\ \E s \in RelatedEdgeSeqs :
       /\ rNodes = BuildRrm(s).nodes
       /\ outgoingEdges = BuildRrm(s).outgoingEdges
       /\ incomingEdges = BuildRrm(s).incomingEdges
       /\ edgeIndex = BuildRrm(s).edgeIndex
       /\ edgeObjs = BuildRrm(s).edgeObjs
  /\ ret = [op |-> "new"]

NextRelated ==
  \/ \E did \in QueryDids, options \in RelatedOptions :
       FindRelatedResources(did, options)
  \/ \E did \in QueryDids, maxDepth \in RelatedDepths :
       FindDependents(did, maxDepth)
  \/ \E did \in QueryDids, maxDepth \in RelatedDepths :
       FindDependencies(did, maxDepth)
  \/ \E did \in QueryDids, maxDepth \in RelatedDepths :
       FindDerivatives(did, maxDepth)
  \/ \E did \in QueryDids, maxDepth \in RelatedDepths :
       FindSources(did, maxDepth)

SpecRelated == InitRelated /\ [][NextRelated]_vars

\* one edge of an allowed type from x to y, walked in a selected direction
RelatedStep(x, y, options) ==
  \E r \in DOMAIN edgeObjs :
     /\ options.types = None \/ Includes(options.types[1], edgeObjs[r].type)
     /\ \/ options.outgoing /\ edgeObjs[r].sourceDid = x /\ edgeObjs[r].targetDid = y
        \/ options.incoming /\ edgeObjs[r].targetDid = x /\ edgeObjs[r].sourceDid = y

\* the nodes within k such edges of did
RECURSIVE Within(_, _, _)
Within(did, options, k) ==
  IF k = 0 THEN {did}
  ELSE LET near == Within(did, options, k - 1)
       IN  near \cup { y \in DOMAIN rNodes : \E x \in near : RelatedStep(x, y, options) }

IsRelatedQuery ==
  ret.op \in {"findRelatedResources", "findDependents", "findDependencies",
              "findDerivatives", "findSources"}

\* C17: findRelatedResources and its four wrappers return exactly the nodes
\* other than did that some path of at most `depth` edges of the allowed
\* types, in the selected directions, connects to did, whatever the order
\* in which the relationships were added.
C17_ExactlyTheNodesWithinDepth ==
  IsRelatedQuery =>
     SeqRange(ret.value) = Within(ret.did, ret.options, ret.options.depth) \ {ret.did}

----------------------------------------------------------------------------
(* src/relation/resource_graph.js: _findRelatedResources and the three     *)
(* queries built on it.  options is [maxDepth, transitive]; a result entry *)
(* is a record with the keys did, node, relationship and, for an entry     *)
(* found by the recursion, transitive.                                     *)

getNode(g, did) == IF Has(g.nodes, did) THEN g.nodes[did] ELSE Null

\* result.some(r => r.did === did)
SomeDid(result, did) == \E i \in 1..Len(result) : result[i]["did"] = did

\* lines 741-748: the loop that appends the transitive results not yet listed
RECURSIVE AddUnique(_, _, _)
AddUnique(result, transitiveResults, i) ==
  IF i > Len(transitiveResults) THEN result
  ELSE AddUnique(IF ~SomeDid(result, transitiveResults[i]["did"])
                 THEN Append(result, Merge(transitiveResults[i], [transitive |-> TRUE]))
                 ELSE result,
                 transitiveResults, i + 1)

\* lines 689-753
RECURSIVE _findRelatedResources(_, _, _, _, _)
RECURSIVE DeeperRelated(_, _, _, _, _, _, _)
DeeperRelated(g, relatedDIDs, i, direction, relationshipTypes, maxDepth, transitive) ==
  IF i > Len(relatedDIDs) THEN <<>>
  ELSE _findRelatedResources(g, relatedDIDs[i], direction, relationshipTypes,
                             [maxDepth |-> maxDepth - 1, transitive |-> transitive])
       \o DeeperRelated(g, relatedDIDs, i + 1, direction, relationshipTypes,
                        maxDepth, transitive)

_findRelatedResources(g, did, direction, relationshipTypes, options) ==
  LET maxDepth == IF options.maxDepth # 0 THEN options.maxDepth ELSE 1
      transitive == options.transitive
      near == IF direction = "outgoing" THEN "from" ELSE "to"
      far == IF direction = "outgoing" THEN "to" ELSE "from"
      found == SelectSeq(g.edges, LAMBDA edge :
                 edge[near] = did /\ edge["type"] \in relationshipTypes)
      relatedDIDs == [i \in 1..Len(found) |-> found[i][far]]
      First(relatedDID) ==
        found[CHOOSE i \in 1..Len(found) :
                /\ found[i][far] = relatedDID
                /\ \A j \in 1..(i - 1) : found[j][far] # relatedDID]
      result == [i \in 1..Len(relatedDIDs) |->
                   [did |-> relatedDIDs[i],
                    node |-> getNode(g, relatedDIDs[i]),
                    relationship |-> [type |-> First(relatedDIDs[i])["type"],
                                      metadata |-> First(relatedDIDs[i])]]]
  IN  IF ~Has(g.nodes, did) THEN <<>>
      ELSE IF maxDepth <= 0 THEN <<>>
      ELSE IF transitive /\ maxDepth > 1
      THEN AddUnique(result,
                     DeeperRelated(g, relatedDIDs, 1, direction, relationshipTypes,
                                   maxDepth, transitive),
                     1)
      ELSE result

\* lines 324-332
findDerivedResources(g, did, options) ==
  _findRelatedResources(g, did, "outgoing",
    {"wasDerivedFrom", "wasRevisionOf", "wasQuotedFrom", "wasInfluencedBy",
     "fineTunedFrom"}, options)

\* lines 341-348 (ResourceGraph.findDependencies)
findDependenciesOfGraph(g, did, options) ==
  _findRelatedResources(g, did, "outgoing",
    {"dependsOn", "requires", "uses", "trainedOn"}, options)

\* lines 357-362
findComponents(g, did, options) ==
  _findRelatedResources(g, did, "outgoing", {"contains", "hasComponent"}, options)

\* the queries change nothing
FindDerivedResources(did, options) ==
  /\ ret' = [op |-> "findDerivedResources", did |-> did, options |-> options,
             value |-> findDerivedResources(G, did, options)]
  /\ UNCHANGED graphVars
  /\ OnlyGraph

GraphFindDependencies(did, options) ==
  /\ ret' = [op |-> "findDependencies", did |-> did, options |-> options,
             value |-> findDependenciesOfGraph(G, did, options)]
  /\ UNCHANGED graphVars
  /\ OnlyGraph

FindComponents(did, options) ==
  /\ ret' = [op |-> "findComponents", did |-> did, options |-> options,
             value |-> findComponents(G, did, options)]
  /\ UNCHANGED graphVars
  /\ OnlyGraph

----------------------------------------------------------------------------
(* SpecFind: a graph is built by addNode and addEdge and queried.          *)

MaxFindEdges == 2
FindDids == {DidA, DidB, DidC}
FindTypes == {"dependsOn", "uses", "contains", "wasDerivedFrom"}
FindOptions == [maxDepth : {1, 2}, transitive : BOOLEAN]

NextFind ==
  \/ \E did \in FindDids : ~Has(nodes, did) /\ AddNode(did, EmptyObj)
  \/ \E f \in FindDids, t \in FindDids, ty \in FindTypes :
       /\ ~addEdgeThrows(G, f, t, ty)
       /\ FindEdgeIndex(edges, f, t, ty, 1) = 0
       /\ Len(edges) < MaxFindEdges
       /\ AddEdge(f, t, ty, EmptyObj)
  \/ \E did \in FindDids, options \in FindOptions : FindDerivedResources(did, options)
  \/ \E did \in FindDids, options \in FindOptions : GraphFindDependencies(did, options)
  \/ \E did \in FindDids, options \in FindOptions : FindComponents(did, options)

SpecFind == InitGraphSpec /\ [][NextFind]_vars

\* C18: the list returned by findDerivedResources, findDependencies and
\* findComponents holds no node identifier in more than one entry.
C18_ResultIsDeduplicated ==
  ret.op \in {"findDerivedResources", "findDependencies", "findComponents"}
  => \A i \in 1..Len(ret.value), j \in 1..Len(ret.value) :
       i # j => ret.value[i]["did"] # ret.value[j]["did"]

----------------------------------------------------------------------------
(* SpecAsset: a graph whose nodes carry entity types is built by addNode   *)
(* and addEdge and projected by toPROV.  Nothing is removed, so the        *)
(* document toPROV returns is always built from the current graph.         *)

MaxAssetEdges == 2
AssetDids == {DidA, DidB}
AssetNodeMetas ==
  { EmptyObj, [type |-> "AIModel"], [type |-> "Dataset"], [type |-> "SoftwareCode"],
    [type |-> "Activity"] }
AssetTypes == {"dependsOn", "wasDerivedFrom"}

NextAsset ==
  \/ \E did \in AssetDids, md \in AssetNodeMetas : ~Has(nodes, did) /\ AddNode(did, md)
  \/ \E f \in AssetDids, t \in AssetDids, ty \in AssetTypes :
       /\ ~addEdgeThrows(G, f, t, ty)
       /\ FindEdgeIndex(edges, f, t, ty, 1) = 0
       /\ Len(edges) < MaxAssetEdges
       /\ AddEdge(f, t, ty, EmptyObj)
  \/ ToPROV

SpecAsset == InitGraphSpec /\ [][NextAsset]_vars

\* the tags toPROV's switch maps onto a prov: key (lines 420-459)
ProvMapped ==
  ProvRelations \cup {"wasRevisionOf", "wasQuotedFrom", "wasInfluencedBy"}

\* C19: in the document toPROV returns, every edge whose tag is not a PROV
\* relation and whose source is projected as an entity has its target in
\* the list `asset:{type}` of the source entity.
C19_AssetEdgesAreListed ==
  ret.op = "toPROV"
  => \A i \in 1..Len(edges) :
       ( /\ edges[i]["type"] \notin ProvMapped
         /\ Has(ret.value.entity, edges[i]["from"]) )
       => /\ Has(ret.value.entity[edges[i]["from"]], AssetKey(edges[i]["type"]))
          /\ Includes(ret.value.entity[edges[i]["from"]][AssetKey(edges[i]["type"])],
                      edges[i]["to"])

----------------------------------------------------------------------------
(* SpecTags: one ResourceGraph under addNode, addEdge, removeNode,         *)
(* removeEdge and fromJSON, called with type tags inside and outside the   *)
(* two vocabularies.                                                       *)

MaxTagEdges == 2
TagDids == {DidA, DidB}

\* an entity tag outside ENTITY_TYPES
BadEntityType == "notAnEntity"

TagNodeMetas == { EmptyObj, [type |-> "Dataset"], [type |-> BadEntityType] }
TagEdgeMetas == { EmptyObj, [type |-> BadType] }

TagJsonDocs ==
  { [nodes |-> <<JsonNode(DidA), JsonNode(DidB)>>,
     edges |-> <<JsonEdge(DidA, DidB, "uses")>>],
    [nodes |-> <<JsonNode(DidA), [did |-> DidB, type |-> BadEntityType]>>,
     edges |-> <<JsonEdge(DidA, DidB, "uses")>>],
    [nodes |-> <<JsonNode(DidA), JsonNode(DidB)>>,
     edges |-> <<JsonEdge(DidA, DidB, BadType)>>] }

NextTags ==
  \/ \E did \in TagDids, md \in TagNodeMetas : AddNode(did, md)
  \/ \E f \in TagDids, t \in TagDids, ty \in GraphTypes, md \in TagEdgeMetas :
       Room(f, t, ty, MaxTagEdges) /\ AddEdge(f, t, ty, md)
  \/ \E did \in TagDids : RemoveNode(did)
  \/ \E f \in TagDids, t \in TagDids, ty \in {"uses", Null} : RemoveEdge(f, t, ty)
  \/ \E json \in TagJsonDocs \cup {toJSON(G)} : FromJSON(json)

SpecTags == InitGraphSpec /\ [][NextTags]_vars

\* C20: in every reachable state of a ResourceGraph every node's type is a
\* member of ENTITY_TYPES and every edge's type is a member of
\* RELATIONSHIP_TYPES.
C20_TagsAreInVocabularies ==
  /\ \A did \in DOMAIN nodes : nodes[did]["type"] \in ENTITY_TYPES
  /\ \A i \in 1..Len(edges) : edges[i]["type"] \in RELATIONSHIP_TYPES

----------------------------------------------------------------------------
(* src/unnamed/part_006: the validate methods of the layers, validateAll   *)
(* and generateIntegratedMetadata.  In the layer data of the model `id` is *)
(* a string as a token sequence, the other scalar fields are strings, and  *)
(* claim, signature, entity, activity, agent and license are objects.      *)

\* a || b on strings and null
OrElse(a, b) == IF a # Null /\ a # "" THEN a ELSE b

\* !this.get(field) for a field that holds an object when it is there:
\* every object, the empty one included, is truthy
Missing(layer, field) == field \notin DOMAIN layer.data

\* !this.get(field) for a field that holds a string when it is there
MissingString(layer, field) ==
  field \notin DOMAIN layer.data \/ layer.data[field] = ""

\* did.startsWith('did:')
StartsWithDid(did) == Len(did) >= 2 /\ did[1] = "did" /\ did[2] = ":"

\* lines 158-171 (IdentificationLayer)
validateIdentification(layer) ==
  IF "id" \notin DOMAIN layer.data \/ layer.data["id"] = <<>>
       \/ ~StartsWithDid(layer.data["id"])
  THEN FALSE
  ELSE IF MissingString(layer, "controller") THEN FALSE
  ELSE TRUE

\* lines 207-220 (ProvenanceLayer)
validateProvenance(layer) ==
  IF Missing(layer, "claim") THEN FALSE
  ELSE IF /\ ~Missing(layer, "signature")
          /\ \/ "value" \notin DOMAIN layer.data["signature"]
             \/ layer.data["signature"]["value"] = ""
  THEN FALSE
  ELSE TRUE

\* lines 311-331 (CharacteristicsLayer)
validateCharacteristics(layer) ==
  IF MissingString(layer, "resourceType") THEN FALSE
  ELSE CASE layer.type = METADATA_STANDARDS.MODEL_CARD ->
              ~MissingString(layer, "modelName") /\ ~MissingString(layer, "modelDescription")
         [] layer.type = METADATA_STANDARDS.DATA_SHEET ->
              ~MissingString(layer, "datasetName")
                /\ ~MissingString(layer, "datasetDescription")
         [] OTHER -> TRUE

\* lines 392-399 (LineageLayer)
validateLineage(layer) ==
  IF Missing(layer, "agent") /\ Missing(layer, "entity") /\ Missing(layer, "activity")
  THEN FALSE
  ELSE TRUE

\* lines 526-533 (RightsLayer)
validateRights(layer) == IF Missing(layer, "license") THEN FALSE ELSE TRUE

\* layer.validate(), by the class of the layer
validate(layer) ==
  CASE layer.type = METADATA_STANDARDS.DID -> validateIdentification(layer)
    [] layer.type = METADATA_STANDARDS.C2PA -> validateProvenance(layer)
    [] layer.type = METADATA_STANDARDS.PROV -> validateLineage(layer)
    [] layer.type = METADATA_STANDARDS.MPEG21_REL -> validateRights(layer)
    [] OTHER -> validateCharacteristics(layer)

\* lines 791-801
validateAll(ls) ==
  [standard \in {s \in DOMAIN ls : ls[s] # None} |-> validate(ls[standard][1])]

\* lines 337-372
toSchemaOrgJSONLD(layer) ==
  LET schemaType ==
        CASE layer.type = METADATA_STANDARDS.MODEL_CARD -> "SoftwareApplication"
          [] layer.type = METADATA_STANDARDS.DATA_SHEET -> "Dataset"
          [] OTHER -> "CreativeWork"
      additionalProperties ==
        CASE layer.type = METADATA_STANDARDS.MODEL_CARD ->
               [applicationCategory |-> "AI Model",
                softwareVersion |-> LayerGet(layer, "modelVersion", Null),
                operatingSystem |-> LayerGet(layer, "executionEnvironment", Null)]
          [] layer.type = METADATA_STANDARDS.DATA_SHEET ->
               [variableMeasured |-> LayerGet(layer, "variables", <<>>),
                distribution |-> [type |-> "DataDownload",
                                  contentUrl |-> LayerGet(layer, "downloadUrl", Null)]]
          [] OTHER -> EmptyObj
  IN  Merge([k \in {"@context", "@type", "name", "description"} |->
               CASE k = "@context" -> "https://schema.org/"
                 [] k = "@type" -> schemaType
                 [] k = "name" ->
                      OrElse(LayerGet(layer, "modelName", Null),
                             OrElse(LayerGet(layer, "datasetName", Null),
                                    LayerGet(layer, "name", Null)))
                 [] k = "description" ->
                      OrElse(LayerGet(layer, "modelDescription", Null),
                             OrElse(LayerGet(layer, "datasetDescription", Null),
                                    LayerGet(layer, "description", Null)))],
            additionalProperties)

\* lines 605-642: one permission, prohibition or obligation; its conditions
\* are a sequence of <<name, value>> entries
OdrlRule(type, p) ==
  [type |-> type, action |-> p.action,
   constraint |-> [i \in 1..Len(p.conditions) |->
                     [type |-> "Constraint", leftOperand |-> p.conditions[i][1],
                      operator |-> "eq", rightOperand |-> p.conditions[i][2]]]]

\* lines 605-642; t is new Date().getTime()
toODRLJSONLD(layer, t) ==
  [k \in {"@context", "@type", "uid", "profile", "permission", "prohibition",
          "obligation"} |->
     CASE k = "@context" -> <<"https://www.w3.org/ns/odrl.jsonld">>
       [] k = "@type" -> <<"Policy">>
       [] k = "uid" -> LayerGet(layer, "uid", <<"urn:policy:", t>>)
       [] k = "profile" -> <<"http://example.com/odrl:profile:asset">>
       [] k = "permission" ->
            [i \in 1..Len(LayerGet(layer, "permissions", <<>>)) |->
               OdrlRule("Permission", LayerGet(layer, "permissions", <<>>)[i])]
       [] k = "prohibition" ->
            [i \in 1..Len(LayerGet(layer, "prohibitions", <<>>)) |->
               OdrlRule("Prohibition", LayerGet(layer, "prohibitions", <<>>)[i])]
       [] k = "obligation" ->
            [i \in 1..Len(LayerGet(layer, "obligations", <<>>)) |->
               OdrlRule("Duty", LayerGet(layer, "obligations", <<>>)[i])]]

\* lines 810-817
IntegratedContext ==
  << "https://www.w3.org/ns/did/v1", "https://schema.org/",
     "https://www.w3.org/ns/prov#", "https://www.w3.org/ns/odrl.jsonld" >>

\* lines 808-866 with the default format 'jsonld'
generateIntegratedMetadata(ls, t) ==
  LET i0 == [k \in {"@context"} |-> IntegratedContext]
      idLayer == ls[METADATA_STANDARDS.DID]
      i1 == IF idLayer # None THEN Merge(i0, toDIDDocument(idLayer[1])) ELSE i0
      provLayer == ls[METADATA_STANDARDS.C2PA]
      i2 == IF provLayer # None
            THEN Put(i1, "provenance", toC2PAManifest(provLayer[1]))
            ELSE i1
      charSlot ==
        IF ls[METADATA_STANDARDS.MODEL_CARD] # None THEN Some(METADATA_STANDARDS.MODEL_CARD)
        ELSE IF ls[METADATA_STANDARDS.DATA_SHEET] # None
             THEN Some(METADATA_STANDARDS.DATA_SHEET)
        ELSE IF ls[METADATA_STANDARDS.GENERAL] # None THEN Some(METADATA_STANDARDS.GENERAL)
        ELSE None
      charKey == [modelCard |-> "modelCard", dataSheet |-> "dataSheet",
                  general |-> "characteristics"]
      i3 == IF charSlot # None
            THEN Put(Put(i2, charKey[charSlot[1]], getData(ls[charSlot[1]][1])),
                     "schemaOrg", toSchemaOrgJSONLD(ls[charSlot[1]][1]))
            ELSE i2
      lineageLayer == ls[METADATA_STANDARDS.PROV]
      i4 == IF lineageLayer # None
            THEN Put(i3, "provenance",
                     Put(IF Has(i3, "provenance") THEN i3["provenance"] ELSE EmptyObj,
                         "lineage", toPROVJSON(lineageLayer[1])))
            ELSE i3
      rightsLayer == ls[METADATA_STANDARDS.MPEG21_REL]
  IN  IF rightsLayer # None
      THEN Put(Put(i4, "rights", getData(rightsLayer[1])),
               "odrl", toODRLJSONLD(rightsLayer[1], t))
      ELSE i4

ValidateAll ==
  /\ ret' = [op |-> "validateAll", value |-> validateAll(layers)]
  /\ UNCHANGED layers
  /\ OnlyLayers

GenerateIntegratedMetadata ==
  /\ ret' = [op |-> "generateIntegratedMetadata",
             value |-> generateIntegratedMetadata(layers, now)]
  /\ UNCHANGED layers
  /\ OnlyLayers

----------------------------------------------------------------------------
(* SpecBundle: the layers of one manager are set, with data that meets or  *)
(* misses the required fields, and the bundle is validated and integrated. *)

BundleDidData ==
  { [id |-> DidA, controller |-> "did:example:owner"],
    [id |-> DidA],
    [controller |-> "did:example:owner"] }
BundleProvenanceData ==
  { ProvenanceData, [claim |-> EmptyObj], EmptyObj,
    [claim |-> [title |-> "t"], signature |-> [value |-> "sig"]],
    [claim |-> [title |-> "t"], signature |-> EmptyObj] }
BundleLineageData ==
  { LineageData, [entity |-> EmptyObj, activity |-> EmptyObj, agent |-> EmptyObj],
    EmptyObj }
BundleRightsData == { RightsData, EmptyObj }
BundleCharacteristics ==
  { <<"text", CharacteristicsData>>,
    <<"ai-model", [modelName |-> "m", modelDescription |-> "d"]>>,
    <<"ai-model", [modelName |-> "m"]>> }

NextBundle ==
  \/ \E didData \in BundleDidData : SetIdentificationLayer(didData)
  \/ \E provenanceData \in BundleProvenanceData : SetProvenanceLayer(provenanceData)
  \/ \E c \in BundleCharacteristics : SetCharacteristicsLayer(c[1], c[2])
  \/ \E lineageData \in BundleLineageData : SetLineageLayer(lineageData)
  \/ \E rightsData \in BundleRightsData : SetRightsLayer(rightsData)
  \/ ValidateAll
  \/ GenerateIntegratedMetadata

SpecBundle == InitLayers /\ [][NextBundle]_vars

\* a field that is there and is not the empty object
NonEmpty(data, field) == field \in DOMAIN data /\ DOMAIN data[field] # {}

\* the required-field rule of the layer in slot s
MeetsRule(s, data) ==
  CASE s = "did" -> /\ "id" \in DOMAIN data
                    /\ "controller" \in DOMAIN data
    [] s = "c2pa" -> /\ NonEmpty(data, "claim")
                     /\ "signature" \in DOMAIN data
                          => ("value" \in DOMAIN data["signature"]
                                /\ data["signature"]["value"] # "")
    [] s = "prov" -> \/ NonEmpty(data, "entity")
                     \/ NonEmpty(data, "activity")
                     \/ NonEmpty(data, "agent")
    [] s = "mpeg21Rel" -> "license" \in DOMAIN data

\* C22: validateAll has a result exactly for the layers that are present,
\* and the result of an identity, provenance, lineage or rights layer is
\* true exactly when the layer meets its required-field rule; an empty
\* claim, or entity, activity and agent all empty, is invalid.
C22_ValidateAllFollowsTheRules ==
  ret.op = "validateAll" =>
    /\ DOMAIN ret.value = {s \in DOMAIN layers : layers[s] # None}
    /\ \A s \in DOMAIN ret.value \cap {"did", "c2pa", "prov", "mpeg21Rel"} :
         ret.value[s] = MeetsRule(s, layers[s][1].data)

\* C23: the @context of the integrated document is the fixed list of four
\* contexts, whichever layers are present.
C23_ContextIsTheFixedList ==
  ret.op = "generateIntegratedMetadata" => ret.value["@context"] = IntegratedContext

----------------------------------------------------------------------------
(* SpecBits: _textToBinary on strings of UTF-16 code units, some of them   *)
(* above 255 (JSON.stringify leaves such characters as they are).          *)

MaxTextLen == 3
TextUnits == {65, 125, 255, 256, 8217, 65535}
BitTexts == UNION {[1..n -> TextUnits] : n \in 0..MaxTextLen}

\* binary = strategy._textToBinary(text)
TextToBinary(text) ==
  /\ ret' = [op |-> "_textToBinary", text |-> text, value |-> _textToBinary(text)]
  /\ UNCHANGED <<now, otherVars, graphVars, rrmVars, searchVars, issued, wm>>

NextBits == \E text \in BitTexts : TextToBinary(text)

SpecBits == InitGraphSpec /\ [][NextBits]_vars

\* the eight bits of the low byte of a code unit, most significant first
LowByteBits(c) == [i \in 1..8 |-> ((c % 256) \div (2 ^ (8 - i))) % 2]

\* C24: _textToBinary emits 8 bits per code unit, the big-endian bits of the
\* unit's low byte, so the k-th unit occupies bits 8k-7 .. 8k.
C24_EightBitsPerCodeUnit ==
  ret.op = "_textToBinary" =>
    /\ Len(ret.value) = 8 * Len(ret.text)
    /\ \A k \in 1..Len(ret.text) :
         SubSeq(ret.value, 8 * k - 7, 8 * k) = LowByteBits(ret.text[k])

----------------------------------------------------------------------------
(* SpecHash, continued: attribute objects that differ in a nested value.   *)

\* C27: two object resources of the same resource type, generated with the
\* same properties, that differ in the value of a field have different
\* canonical serializations, hence different digests and identifiers.
C27_NestedValuesAreDistinguished ==
  \A x \in generated, y \in generated :
     ( /\ x.resourceType = y.resourceType
       /\ x.options = y.options
       /\ ObjectKeys(x.resource) = ObjectKeys(y.resource)
       /\ x.resource # y.resource )
     => (x.uniqueId # y.uniqueId /\ x.did # y.did)

----------------------------------------------------------------------------
(* DIDFactory.bridgeExternalIdentifier.  The type of the identifier is a   *)
(* sequence of characters, the external identifier a string.               *)

UpperLetters ==
  << "A", "B", "C", "D", "E", "F", "G", "H", "I", "J", "K", "L", "M", "N", "O", "P",
     "Q", "R", "S", "T", "U", "V", "W", "X", "Y", "Z" >>
LowerLetters ==
  << "a", "b", "c", "d", "e", "f", "g", "h", "i", "j", "k", "l", "m", "n", "o", "p",
     "q", "r", "s", "t", "u", "v", "w", "x", "y", "z" >>

\* idType.toLowerCase()
LowerCase(str) ==
  [i \in 1..Len(str) |->
     IF IndexIn(UpperLetters, str[i]) >= 0
     THEN LowerLetters[IndexIn(UpperLetters, str[i]) + 1] ELSE str[i]]

\* lines 530-555
bridgeExternalIdentifier(externalId, idType, resourceType, options) ==
  CASE Join(LowerCase(idType)) = "doi" ->
         generateDID(Join(_generateHash("doi:" \o externalId)), resourceType, options)
    [] Join(LowerCase(idType)) = "swhid" ->
         generateDID(Join(_generateHash("swhid:" \o externalId)), Chars.code, options)
    [] Join(LowerCase(idType)) = "isbn" ->
         generateDID(Join(_generateHash("isbn:" \o externalId)), Chars.text, options)
    [] OTHER ->
         generateDID(Join(_generateHash(Join(idType) \o ":" \o externalId)),
                     resourceType, options)

BridgeExternalIdentifier(externalId, idType, resourceType, options) ==
  /\ generated' = generated \cup
       {[externalId |-> externalId, idType |-> idType, resourceType |-> resourceType,
         options |-> options,
         did |-> bridgeExternalIdentifier(externalId, idType, resourceType, options)]}
  /\ ret' = [op |-> "bridgeExternalIdentifier",
             value |-> bridgeExternalIdentifier(externalId, idType, resourceType, options)]
  /\ OnlyHash

----------------------------------------------------------------------------
(* SpecBridge: external identifiers of several kinds are bridged to DIDs   *)
(* of several resource types by one factory.                               *)

MaxBridged == 2
ExternalIds == {"10.1000/182", "10.1000/183"}
IdTypes ==
  { <<"d", "o", "i">>, <<"D", "O", "I">>, <<"s", "w", "h", "i", "d">>,
    <<"i", "s", "b", "n">>, <<"a", "r", "k">> }
BridgeTypes == {Chars.text, Chars.aiModel, Chars.dataset, Chars.code}
BridgeOptions ==
  [method : {Chars.asset}, compression : {"hex", "base64url"}, owner : {None}]

NextBridge ==
  \E externalId \in ExternalIds, idType \in IdTypes, resourceType \in BridgeTypes,
     options \in BridgeOptions :
       /\ Cardinality(generated) < MaxBridged
       /\ BridgeExternalIdentifier(externalId, idType, resourceType, options)

SpecBridge == InitHash /\ [][NextBridge]_vars

\* C26: for one idType, one resourceType and the same options, two
\* different external identifiers are bridged to two different DIDs.
C26_BridgeSeparatesIdentifiers ==
  \A x \in generated, y \in generated :
     ( /\ x.idType = y.idType
       /\ x.resourceType = y.resourceType
       /\ x.options = y.options
       /\ x.externalId # y.externalId )
     => x.did # y.did

----------------------------------------------------------------------------
(* src/index.js: DecentralizedResourceIDSystem.registerResource, with the  *)
(* DIDFactory helpers it calls.  The system holds one metadata manager,    *)
(* whose layers are the variable layers.  The registry is not connected    *)
(* (initialize was not called) and options.applyWatermark is false, so     *)
(* steps 5 and 6 do nothing.                                               *)

TypeChars ==
  ("text" :> Chars.text) @@ ("image" :> Chars.image) @@ ("ai-model" :> Chars.aiModel)
    @@ ("dataset" :> Chars.dataset) @@ ("code" :> Chars.code)

\* part_004 lines 377-431; did.replace(/:/g, '-') is ReplaceAll
createStandardServices(did, resourceType) ==
  LET Service(fragment, type, base) ==
        [id |-> did \o <<fragment>>, type |-> type,
         serviceEndpoint |-> <<base>> \o ReplaceAll(did, ":", "-")]
      standard ==
        << Service("#metadata", "MetadataService", "https://api.example.com/metadata/"),
           Service("#watermark", "WatermarkVerificationService",
                   "https://api.example.com/watermark/verify/"),
           Service("#provenance", "ProvenanceService",
                   "https://api.example.com/provenance/") >>
  IN  CASE resourceType = "ai-model" ->
             Append(standard, Service("#mcp", "ModelContextProtocolService",
                                      "https://api.example.com/mcp/"))
        [] resourceType = "dataset" ->
             Append(standard, Service("#explore", "DatasetExplorationService",
                                      "https://api.example.com/dataset/explore/"))
        [] resourceType = "code" ->
             Append(standard, Service("#execute", "CodeExecutionService",
                                      "https://api.example.com/code/execute/"))
        [] OTHER -> standard

\* part_004 lines 440-459; id is crypto.randomBytes(32).toString('hex')
createStandardVerificationMethods(did, id) ==
  << [id |-> did \o <<"#keys-1">>, type |-> "Ed25519VerificationKey2020",
      controller |-> did, publicKeyMultibase |-> <<"z", id>>] >>

\* part_004 lines 323-367, for a DID of at least four parts
generateDIDDocument(did, metadata, services, verificationMethods, t) ==
  LET resourceType == Split(did)[3]
      base ==
        ("@context" :> << "https://www.w3.org/ns/did/v1",
                          "https://w3id.org/security/suites/ed25519-2020/v1",
                          "https://w3id.org/asset-schema/v1" >>)
        @@ [id |-> did,
            controller |-> IF Has(metadata, "controller") THEN metadata["controller"]
                           ELSE did,
            created |-> IF Has(metadata, "created") THEN metadata["created"]
                        ELSE ToISOString(t),
            updated |-> IF Has(metadata, "updated") THEN metadata["updated"]
                        ELSE ToISOString(t),
            resourceType |-> resourceType]
      d1 == IF Len(verificationMethods) > 0
            THEN Put(Put(base, "verificationMethod", verificationMethods),
                     "authentication", <<verificationMethods[1].id>>)
            ELSE base
      d2 == IF Len(services) > 0 THEN Put(d1, "service", services) ELSE d1
  IN  IF DOMAIN metadata # {}
      THEN Put(d2, "metadata", Put(metadata, "resourceType", resourceType))
      ELSE d2

\* index.js lines 72-129: the layers after steps 1 to 3
RegisteredLayers(ls, resource, resourceType, metadata, options, id, t) ==
  LET did == generateDID(resource, TypeChars[resourceType], options)
      didDocument ==
        generateDIDDocument(did, metadata, createStandardServices(did, resourceType),
                            createStandardVerificationMethods(did, id), t)
      provenanceData ==
        [claim |-> [assertions |-> <<>>, created |-> ToISOString(t),
                    generatorId |-> "DecentralizedResourceIDSystem",
                    format |-> resourceType]]
      creator == IF Has(metadata, "creator") /\ metadata["creator"] # ""
                 THEN Some(metadata["creator"]) ELSE None
      lineageData ==
        [entity |-> (did :> (("prov:type" :> resourceType)
                               @@ ("prov:label" :>
                                     IF Has(metadata, "name") /\ metadata["name"] # ""
                                     THEN metadata["name"] ELSE "Unnamed resource"))),
         agent |-> (("agent-" \o (IF creator # None THEN creator[1] ELSE "system")) :>
                      (("prov:type" :> "prov:Person")
                         @@ ("prov:label" :>
                               IF creator # None THEN creator[1] ELSE "System")))]
      License(k, default) ==
        IF Has(metadata["license"], k) /\ metadata["license"][k] # ""
        THEN metadata["license"][k] ELSE default
      l1 == [ls EXCEPT
               ![METADATA_STANDARDS.DID] =
                  Some(MetadataLayer(METADATA_STANDARDS.DID, didDocument, t)),
               ![METADATA_STANDARDS.C2PA] =
                  Some(MetadataLayer(METADATA_STANDARDS.C2PA, provenanceData, t))]
      l2 == [l1 EXCEPT
               ![CharacteristicsStandard(resourceType)] =
                  Some(MetadataLayer(CharacteristicsStandard(resourceType),
                         Merge([resourceType |-> resourceType], metadata), t))]
      l3 == [l2 EXCEPT
               ![METADATA_STANDARDS.PROV] =
                  Some(MetadataLayer(METADATA_STANDARDS.PROV, lineageData, t))]
  IN  IF Has(metadata, "license")
      THEN [l3 EXCEPT
              ![METADATA_STANDARDS.MPEG21_REL] =
                 Some(MetadataLayer(METADATA_STANDARDS.MPEG21_REL,
                        [license |-> [type |-> License("type", "Unspecified"),
                                      url |-> License("url", ""),
                                      text |-> License("text", "")]], t))]
      ELSE l3

\* index.js lines 72-171: what the call returns
registerResource(ls, resource, resourceType, metadata, options, id, t) ==
  LET did == generateDID(resource, TypeChars[resourceType], options)
  IN  [did |-> did,
       didDocument |->
         generateDIDDocument(did, metadata, createStandardServices(did, resourceType),
                             createStandardVerificationMethods(did, id), t),
       metadata |-> generateIntegratedMetadata(
                      RegisteredLayers(ls, resource, resourceType, metadata, options, id, t),
                      t),
       watermarked |-> (options.applyWatermark # FALSE),
       registrationResult |-> [did |-> did, registered |-> FALSE]]

\* result = await system.registerResource(resource, resourceType, metadata,
\* options); id is the random key material of the verification method
RegisterResource(resource, resourceType, metadata, options, id) ==
  /\ layers' = RegisteredLayers(layers, resource, resourceType, metadata, options, id, now)
  /\ ret' = [op |-> "registerResource", resourceType |-> resourceType,
             metadata |-> metadata,
             value |-> registerResource(layers, resource, resourceType, metadata,
                                        options, id, now)]
  /\ OnlyLayers

----------------------------------------------------------------------------
(* SpecRegister: resources of several types, with and without a license,   *)
(* are registered one after the other on one system.                       *)

RegisterResources == {"hello", "world"}
RegisterTypes == {"text", "ai-model", "dataset"}
RegisterMetadata ==
  { [name |-> "n"], [name |-> "n", license |-> [type |-> "MIT"]] }
RegisterOptions ==
  [method : {Chars.asset}, compression : {"hex"}, owner : {None},
   applyWatermark : {FALSE}]
RandomIds == {"k1", "k2"}

NextRegister ==
  \E resource \in RegisterResources, resourceType \in RegisterTypes,
     metadata \in RegisterMetadata, options \in RegisterOptions, id \in RandomIds :
       RegisterResource(resource, resourceType, metadata, options, id)

SpecRegister == InitLayers /\ [][NextRegister]_vars

\* C25: the integrated metadata a registerResource call returns holds no
\* rights and no odrl when the call's metadata has no license, and no
\* modelCard when the call's resource type is not ai-model, whatever was
\* registered before.
C25_MetadataOfThisCallOnly ==
  ret.op = "registerResource" =>
    /\ ~Has(ret.metadata, "license") =>
         (~Has(ret.value.metadata, "rights") /\ ~Has(ret.value.metadata, "odrl"))
    /\ ret.resourceType # "ai-model" => ~Has(ret.value.metadata, "modelCard")

----------------------------------------------------------------------------
(* SpecIndex: a ResourceRelationshipManager driven by addNode,             *)
(* addRelationship and removeRelationship, queried by hasRelationship;     *)
(* the identifiers are the ones of SpecEdges, two of which contain "-".    *)

\* lines 343-346, as a call
RrmHasRelationship(sourceDid, targetDid, type) ==
  /\ ret' = [op |-> "rrm.hasRelationship",
             args |-> <<sourceDid, targetDid, type>>,
             value |-> hasRelationship(M, sourceDid, targetDid, type)]
  /\ UNCHANGED rrmVars
  /\ OnlyRrm

MaxIndexEdges == 1
IndexTypes == {RrmUses, <<"contains">>}

NextIndex ==
  \/ \E did \in RrmDids : RrmAddNode(did, "text", EmptyObj)
  \/ \E sd \in RrmDids, td \in RrmDids, ty \in IndexTypes :
       /\ RrmRoom(sd, td, ty, MaxIndexEdges)
       /\ RrmAddRelationship(sd, td, ty, EmptyObj)
  \/ \E sd \in RrmDids, td \in RrmDids, ty \in IndexTypes :
       RrmRemoveRelationship(sd, td, ty)
  \/ \E sd \in RrmDids, td \in RrmDids, ty \in IndexTypes :
       RrmHasRelationship(sd, td, ty)

SpecIndex == InitEdges /\ [][NextIndex]_vars

\* the tuples of the edges the index holds: an edge is entered by
\* addRelationship with its own tuple and leaves with removeRelationship
IndexedTuples ==
  { <<edgeObjs[edgeIndex[k]].sourceDid, edgeObjs[edgeIndex[k]].targetDid,
      edgeObjs[edgeIndex[k]].type>> : k \in DOMAIN edgeIndex }

\* C28: hasRelationship(s, t, type) answers true exactly when the index
\* holds an edge that addRelationship made for the tuple (s, t, type)
\* itself, also for identifiers that contain '-'.
C28_HasRelationshipMeansThisTuple ==
  ret.op = "rrm.hasRelationship" => (ret.value <=> ret.args \in IndexedTuples)

----------------------------------------------------------------------------
(* SpecRrmProv: ResourceRelationshipManager.toPROV on managers built by       *)
(* addNode and addRelationship, with self-loops, cycles and nodes that     *)
(* have several incoming edges.                                            *)

\* ResourceNode.toPROV, lines 83-91
NodeToPROV(node) ==
  ("@id" :> node.did) @@ ("@type" :> "prov:Entity") @@ ("prov:type" :> node.type)
    @@ ("prov:generatedAtTime" :> ToISOString(node.createdAt))
    @@ ("prov:value" :> node.metadata)

\* RelationshipEdge.toPROV, lines 131-161
EdgeToPROV(edge) ==
  LET provType ==
        IF edge.type \in { <<"wasDerivedFrom">>, <<"wasGeneratedBy">>, <<"used">>,
                           <<"wasAttributedTo">>, <<"wasAssociatedWith">> }
        THEN <<"prov:">> \o edge.type
        ELSE <<"assetRelation:">> \o edge.type
  IN  Merge(("@type" :> provType) @@ ("prov:entity" :> edge.sourceDid)
              @@ ("prov:entity2" :> edge.targetDid)
              @@ ("prov:time" :> ToISOString(edge.createdAt)),
            edge.properties)

\* lines 564-581: what one call of the helper pushes onto '@graph'
RECURSIVE addNodeAndRelationships(_, _, _, _)
RECURSIVE PushOutEdges(_, _, _, _, _)
addNodeAndRelationships(m, did, depth, maxDepth) ==
  IF depth > maxDepth THEN <<>>
  ELSE IF ~Has(m.nodes, did) THEN <<>>
  ELSE <<NodeToPROV(m.nodes[did])>>
         \o PushOutEdges(m, m.outgoingEdges[did], 1, depth, maxDepth)

PushOutEdges(m, outEdges, i, depth, maxDepth) ==
  IF i > Len(outEdges) THEN <<>>
  ELSE <<EdgeToPROV(m.edgeObjs[outEdges[i]])>>
         \o addNodeAndRelationships(m, m.edgeObjs[outEdges[i]].targetDid,
                                    depth + 1, maxDepth)
         \o PushOutEdges(m, outEdges, i + 1, depth, maxDepth)

RECURSIVE PushAllNodes(_, _, _, _)
PushAllNodes(m, dids, i, maxDepth) ==
  IF i > Len(dids) THEN <<>>
  ELSE addNodeAndRelationships(m, dids[i], 0, maxDepth)
         \o PushAllNodes(m, dids, i + 1, maxDepth)

\* lines 552-593: the '@graph' of the document; rootDid is None for null
toPROVOfManager(m, rootDid, maxDepth) ==
  IF rootDid # None
  THEN addNodeAndRelationships(m, rootDid[1], 0, maxDepth)
  ELSE PushAllNodes(m, KeySeq(m.nodes), 1, maxDepth)

RrmToPROV(rootDid, maxDepth) ==
  /\ ret' = [op |-> "rrm.toPROV", rootDid |-> rootDid,
             graph |-> toPROVOfManager(M, rootDid, maxDepth)]
  /\ UNCHANGED rrmVars
  /\ OnlyRrm

MaxRrmProvEdges == 2
RrmDefaultMaxDepth == 10
RrmProvDepths == {1, RrmDefaultMaxDepth}
RrmProvTypes == {RrmTypes.USES, RrmTypes.WAS_DERIVED_FROM}

\* the Map of nodes iterates in insertion order: nodes enter in DidOrder
NextInOrder(did) ==
  \/ Has(rNodes, did)
  \/ \E i \in 1..Len(DidOrder) :
       /\ DidOrder[i] = did
       /\ \A j \in 1..(i - 1) : Has(rNodes, DidOrder[j])

NextRrmProv ==
  \/ \E did \in PathDids : NextInOrder(did) /\ RrmAddNode(did, "dataset", EmptyObj)
  \/ \E sd \in PathDids, td \in PathDids, ty \in RrmProvTypes :
       /\ RrmRoom(sd, td, ty, MaxRrmProvEdges)
       /\ RrmAddRelationship(sd, td, ty, EmptyObj)
  \/ \E rootDid \in {None} \cup {Some(d) : d \in PathDids}, maxDepth \in RrmProvDepths :
       RrmToPROV(rootDid, maxDepth)

SpecRrmProv == InitEdges /\ [][NextRrmProv]_vars

IsNodeEntry(e) == "@id" \in DOMAIN e

\* how often the node did, or the edge (sd, td, provType), is in the graph
NodeEntries(graph, did) ==
  Cardinality({ i \in 1..Len(graph) : IsNodeEntry(graph[i]) /\ graph[i]["@id"] = did })

EdgeEntries(graph, edge) ==
  Cardinality({ i \in 1..Len(graph) :
                  /\ ~IsNodeEntry(graph[i])
                  /\ graph[i]["prov:entity"] = edge.sourceDid
                  /\ graph[i]["prov:entity2"] = edge.targetDid
                  /\ graph[i]["@type"] = EdgeToPROV(edge)["@type"] })

\* C29: in the '@graph' of toPROV no node and no edge of the manager is
\* listed twice, and without a root every node and every edge is listed.
C29_EachEntryExactlyOnce ==
  ret.op = "rrm.toPROV" =>
    /\ \A did \in DOMAIN rNodes :
         /\ NodeEntries(ret.graph, did) <= 1
         /\ ret.rootDid = None => NodeEntries(ret.graph, did) = 1
    /\ \A r \in DOMAIN edgeObjs :
         /\ EdgeEntries(ret.graph, edgeObjs[r]) <= 1
         /\ ret.rootDid = None => EdgeEntries(ret.graph, edgeObjs[r]) = 1

----------------------------------------------------------------------------
(* src/index.js: DecentralizedResourceIDSystem.recordRelationship on the   *)
(* system's relationship manager; identifiers are character sequences.     *)

\* recordRelationship with the target decomposed only after the node of
\* the source has been added
recordRelationshipTargetLate(m, sourceDid, targetDid, relationshipType, properties, t) ==
  IF decompressDIDThrows(sourceDid) THEN [m |-> m, threw |-> TRUE]
  ELSE
    LET m1 == IF ~Has(m.nodes, sourceDid)
              THEN rrmAddNode(m, sourceDid, decompressDID(sourceDid).resourceType,
                              EmptyObj, t)
              ELSE m
    IN  IF decompressDIDThrows(targetDid) THEN [m |-> m1, threw |-> TRUE]
        ELSE
          LET m2 == IF ~Has(m1.nodes, targetDid)
                    THEN rrmAddNode(m1, targetDid, decompressDID(targetDid).resourceType,
                                    EmptyObj, t)
                    ELSE m1
          IN  [m |-> addRelationship(m2, sourceDid, targetDid, relationshipType,
                                     properties, t),
               threw |-> FALSE]

\* lines 274-313: [m |-> the relationship manager afterwards, threw]; every
\* error is caught and thrown again (309-312)
recordRelationship(m, sourceDid, targetDid, relationshipType, properties, t) ==
  IF decompressDIDThrows(sourceDid) THEN [m |-> m, threw |-> TRUE]
  ELSE IF decompressDIDThrows(targetDid) THEN [m |-> m, threw |-> TRUE]
  ELSE
    LET m1 == IF ~Has(m.nodes, sourceDid)
              THEN rrmAddNode(m, sourceDid, decompressDID(sourceDid).resourceType,
                              EmptyObj, t)
              ELSE m
        m2 == IF ~Has(m1.nodes, targetDid)
              THEN rrmAddNode(m1, targetDid, decompressDID(targetDid).resourceType,
                              EmptyObj, t)
              ELSE m1
    IN  IF addRelationshipThrows(m2, sourceDid, targetDid)
        THEN [m |-> m2, threw |-> TRUE]
        ELSE [m |-> addRelationship(m2, sourceDid, targetDid, relationshipType,
                                    properties, t),
              threw |-> FALSE]

RecordRelationship(sourceDid, targetDid, relationshipType, properties) ==
  /\ SetM(recordRelationship(M, sourceDid, targetDid, relationshipType, properties,
                             now).m)
  /\ ret' = [op |-> "recordRelationship", sourceDid |-> sourceDid,
             targetDid |-> targetDid,
             threw |-> recordRelationship(M, sourceDid, targetDid, relationshipType,
                                          properties, now).threw]
  /\ OnlyRrm

----------------------------------------------------------------------------
(* SpecRecord: recordRelationship with well-formed and malformed           *)
(* identifiers, on the empty manager and on the ones earlier calls left.   *)

MaxRecordEdges == 1

Colon == <<":">>
RecordGoodDids ==
  { Chars.did \o Colon \o Chars.asset \o Colon \o Chars.text \o Colon \o <<"A", "Q">>,
    Chars.did \o Colon \o Chars.key \o Colon \o Chars.text \o Colon \o <<"A", "w">>
      \o Colon \o <<"b", "o", "b">> }
\* three segments; the prefix "dix"; the empty string
RecordBadDids ==
  { Chars.did \o Colon \o Chars.asset \o Colon \o Chars.text,
    <<"d", "i", "x">> \o Colon \o Chars.asset \o Colon \o Chars.text \o Colon \o <<"A", "Q">>,
    <<>> }
RecordDids == RecordGoodDids \cup RecordBadDids
RecordTypes == {RrmTypes.USES}

NextRecord ==
  \E sd \in RecordDids, td \in RecordDids, ty \in RecordTypes, props \in RrmProps :
    /\ \/ decompressDIDThrows(sd)
       \/ decompressDIDThrows(td)
       \/ RrmRoom(sd, td, ty, MaxRecordEdges)
    /\ RecordRelationship(sd, td, ty, props)

SpecRecord == InitEdges /\ [][NextRecord]_vars

Malformed(did) == Len(Split(did)) < 4 \/ Split(did)[1] # <<"d", "i", "d">>

\* C30: a recordRelationship call with a malformed sourceDid or targetDid
\* fails and leaves the nodes and edges of the relationship manager as
\* they were before the call.
C30_MalformedLeavesManagerUnchanged ==
  [][(ret'.op = "recordRelationship"
        /\ (Malformed(ret'.sourceDid) \/ Malformed(ret'.targetDid)))
       => (ret'.threw /\ UNCHANGED rrmVars)]_vars

\* a failed call with a well-formed source that is no node yet and a
\* malformed target, on a manager that already holds an edge
C30_Witness ==
  /\ ret.op = "recordRelationship"
  /\ ret.threw
  /\ ~Malformed(ret.sourceDid)
  /\ Malformed(ret.targetDid)
  /\ ~Has(rNodes, ret.sourceDid)
  /\ edgeObjs # EmptyObj

============================================================================
